---------------------------- MODULE Spec2Model ----------------------------
(***************************************************************************)
(* Template engine and pipeline orchestrator of the PDF statement          *)
(* exporter (src/src/utils/code.ts): the template catalogue of             *)
(* TemplateService, its match scoring and metrics, and                     *)
(* EnhancedPDFParser.parseWithTemplateSelection; then the AI extractor     *)
(* (extractBankStatementData, parsePDFStatement), the pattern recognizer   *)
(* (parseTransactions, parseTransactionsAlternative, normalizeDate, with   *)
(* its categorizing variant of pdfParser.ts), exportToExcel, the feedback  *)
(* hook handleCategoryFeedback and the useFileProcessor hook, each         *)
(* followed under a specification of its own.                              *)
(*                                                                         *)
(* Numbers of the program (avgAccuracy, confidence) are JavaScript         *)
(* numbers; they are modelled as exact rationals <<numerator,              *)
(* denominator>> in lowest terms.                                          *)
(***************************************************************************)
EXTENDS Integers, Sequences, FiniteSets, TLC

VARIABLES
    templates,      \* TemplateService.templates: the Map, in insertion order
    idsGenerated,   \* number of ids handed out by generateTemplateId
    observed,       \* history: per template id, <<n, sum, done>>: the number and
                    \* the sum (hundredths) of the accuracies passed to
                    \* updateTemplateMetrics, and how many of these calls are over
    matchResult,    \* the findBestTemplate call just made on the service (its text
                    \* and result), if that was the last call made
    procs,          \* the running parseWithTemplateSelection calls
    extraction,     \* the call of the AI extractor (extractBankStatementData and
                    \* the parsePDFStatement built on it) being followed
    recognition,    \* the call of the pattern recognizer (parseTransactions)
                    \* being followed
    exporting,      \* the call of exportToExcel being followed
    processing      \* the state of the useFileProcessor hook, and where its
                    \* processFiles call stands

\* the variables of the extractor, the recognizer, the exporter and the hook
ioVars == <<extraction, recognition, exporting, processing>>

vars == <<templates, idsGenerated, observed, matchResult, procs, ioVars>>

\* An optional value is a sequence of at most one element: None, Some(x).
None == <<>>
Some(x) == <<x>>
\* A template id that is undefined (or empty) is 0.
NoId == 0

-----------------------------------------------------------------------------
(* Bounds of the model *)

\* templates created in the metrics specification
MetricsTemplates == 2
\* templates created in the matching and pipeline specifications
MaxTemplates == 2
\* cap of usageCount in the metrics and pipeline specifications
MaxUsage == 11
\* cap of usageCount in the matching specification
SmallUsage == 2
\* cap of usageCount in the concurrent specification
ConcurrentUsage == 3

-----------------------------------------------------------------------------
(* Exact rational arithmetic *)

RECURSIVE GCD(_, _)
GCD(a, b) == IF b = 0 THEN a ELSE GCD(b, a % b)

Abs(x) == IF x < 0 THEN -x ELSE x

\* n/d in lowest terms with a positive denominator
Rat(n, d) ==
    LET g == GCD(Abs(n), Abs(d))
        s == IF d < 0 THEN -1 ELSE 1
    IN  <<(s * n) \div g, (s * d) \div g>>

RatInt(n) == <<n, 1>>
RatAdd(x, y) == Rat(x[1] * y[2] + y[1] * x[2], x[2] * y[2])
RatMul(x, y) == Rat(x[1] * y[1], x[2] * y[2])
RatDiv(x, y) == Rat(x[1] * y[2], x[2] * y[1])
RatGeq(x, y) == x[1] * y[2] >= y[1] * x[2]
RatGt(x, y) == x[1] * y[2] > y[1] * x[2]
RatLt(x, y) == x[1] * y[2] < y[1] * x[2]

-----------------------------------------------------------------------------
(* Statement text.  A text is described by what the scoring tests of it:   *)
(* the bank-name spellings it contains, the account-number shapes and date *)
(* shapes that occur in it, and the keywords it contains.                  *)

ToLowerCase(s) ==
    CASE s = "Chase Bank"  -> "chase bank"
      [] s = "CHASE BANK"  -> "chase bank"
      [] s = "Wells Fargo" -> "wells fargo"
      [] OTHER -> s

\* bank names the AI extraction reports
BankNames == {"Chase Bank", "Wells Fargo"}
\* spellings found in statement texts
TextNames == {"CHASE BANK", "Wells Fargo"}
\* account numbers the AI extraction reports
AcctNumbers == {"1234", "12-34", "****1234"}
TextWords == {"deposit", "payment"}
DateShapes == {"slash", "iso"}

\* accountNumber.replace(/\d/g, "\\d")
DigitsToWildcard(acct) ==
    CASE acct = "1234"     -> "\\d\\d\\d\\d"
      [] acct = "12-34"    -> "\\d\\d-\\d\\d"
      [] acct = "****1234" -> "****\\d\\d\\d\\d"
      [] OTHER -> acct

\* new RegExp(source) throws a SyntaxError on a quantifier with nothing to repeat
RegExpCompiles(source) == source # "****\\d\\d\\d\\d"

AcctShapes == {"\\d\\d\\d\\d", "\\d\\d-\\d\\d"}

\* A date holds four digits in a row (its year), and an ISO date a
\* two-digit pair around a hyphen, so the account shapes occur with them.
Texts ==
    {t \in [names : SUBSET TextNames, accts : SUBSET AcctShapes,
            dates : SUBSET DateShapes, words : SUBSET TextWords] :
        /\ (t.dates # {} => "\\d\\d\\d\\d" \in t.accts)
        /\ ("iso" \in t.dates => "\\d\\d-\\d\\d" \in t.accts)}

\* statementText.toLowerCase().includes(needle.toLowerCase())
IncludesIgnoreCase(text, needle) ==
    \/ needle = ""
    \/ ToLowerCase(needle) \in {ToLowerCase(s) : s \in text.names \cup text.words}

\* regex.test(statementText) for an account-number pattern
PatternTest(pattern, text) == pattern \in text.accts

-----------------------------------------------------------------------------
(* Templates *)

InitialAccuracy == 85
VerifyMinUsage == 10
VerifyMinAccuracy == 90
DefaultAccuracy == 90

detectDateFormats == <<"MM/DD/YYYY", "DD/MM/YYYY", "YYYY-MM-DD">>
creditKeywords == <<"deposit", "credit", "transfer in", "salary", "refund">>
debitKeywords == <<"withdrawal", "debit", "purchase", "payment", "fee">>

dateFormatToRegex(format) ==
    CASE format = "MM/DD/YYYY" -> "slash"
      [] format = "DD/MM/YYYY" -> "slash"
      [] format = "YYYY-MM-DD" -> "iso"
      [] OTHER -> "slash"

\* Map.get, Map.has, Map.set on the insertion-ordered Map
MapHas(m, id) == \E i \in DOMAIN m : m[i].id = id
MapGet(m, id) == m[CHOOSE i \in DOMAIN m : m[i].id = id]
MapSet(m, id, t) ==
    IF MapHas(m, id)
    THEN [i \in DOMAIN m |-> IF m[i].id = id THEN t ELSE m[i]]
    ELSE Append(m, t)
MapKeys(m) == {m[i].id : i \in DOMAIN m}

generateTemplateIdRepeats(n) == 1

generateTemplateId(n) == n + 1

\* the template record createTemplateFromAI builds
NewTemplate(id, data, userId) ==
    [id |-> id,
     bankName |-> data.bankName,
     createdBy |-> userId,
     usageCount |-> 1,
     isVerified |-> FALSE,
     accountNumberPattern |-> DigitsToWildcard(data.accountNumber),
     dateFormats |-> detectDateFormats,
     avgAccuracy |-> Rat(InitialAccuracy, 100)]

\* extractParsingPatterns throws when the account-number pattern does not compile
ExtractParsingPatternsThrows(data) ==
    ~RegExpCompiles(DigitsToWildcard(data.accountNumber))

NewAverageOffByOne(avg, usageCount, accuracy) ==
    RatDiv(RatAdd(RatMul(avg, RatInt(usageCount)), accuracy), RatInt(usageCount))

NewAverage(avg, usageCount, accuracy) ==
    RatDiv(RatAdd(RatMul(avg, RatInt(usageCount - 1)), accuracy), RatInt(usageCount))

MeetsCriteria(usageCount, avg) ==
    usageCount >= VerifyMinUsage /\ RatGeq(avg, Rat(VerifyMinAccuracy, 100))

NextVerifiedRecomputed(isVerified, meets) == meets

NextVerified(isVerified, meets) == IF meets THEN TRUE ELSE isVerified

\* the synchronous part of updateTemplateMetrics on the template object
UpdatedMetrics(t, accuracy) ==
    LET uc == t.usageCount + 1
        avg == NewAverage(t.avgAccuracy, uc, accuracy)
    IN  [t EXCEPT !.usageCount = uc,
                  !.avgAccuracy = avg,
                  !.isVerified = NextVerified(t.isVerified, MeetsCriteria(uc, avg))]


-----------------------------------------------------------------------------
(* Match scoring: calculateTemplateMatch and findBestTemplate *)

BankNameWeight == 30
AccountWeight == 20
DateWeight == 25
KeywordWeight == 25
PartialKeywordWeight == 15
MatchThreshold == 30

BankNameSignal(text, t) == IncludesIgnoreCase(text, t.bankName)
AccountSignal(text, t) == PatternTest(t.accountNumberPattern, text)
DateSignal(text, t) ==
    \E i \in DOMAIN t.dateFormats : dateFormatToRegex(t.dateFormats[i]) \in text.dates
HasCredits(text) == \E i \in DOMAIN creditKeywords : IncludesIgnoreCase(text, creditKeywords[i])
HasDebits(text) == \E i \in DOMAIN debitKeywords : IncludesIgnoreCase(text, debitKeywords[i])

KeywordScoreAnyKind(hasCredits, hasDebits) ==
    IF hasCredits \/ hasDebits THEN KeywordWeight ELSE 0

KeywordScore(hasCredits, hasDebits) ==
    IF hasCredits /\ hasDebits THEN KeywordWeight
    ELSE IF hasCredits \/ hasDebits THEN PartialKeywordWeight
    ELSE 0

MatchScore(text, t) ==
    (IF BankNameSignal(text, t) THEN BankNameWeight ELSE 0)
    + (IF AccountSignal(text, t) THEN AccountWeight ELSE 0)
    + (IF DateSignal(text, t) THEN DateWeight ELSE 0)
    + KeywordScore(HasCredits(text), HasDebits(text))

MaxScore == BankNameWeight + AccountWeight + DateWeight + KeywordWeight

calculateTemplateMatch(text, t) ==
    IF MaxScore > 0 THEN Rat(MatchScore(text, t), MaxScore) ELSE RatInt(0)

\* the test that admits a candidate: confidence > 0.3
PassesThreshold(confidence) == RatGt(confidence, Rat(MatchThreshold, 100))

\* one iteration of the loop over this.templates.values()
MatchStep(candidates, t, text) ==
    LET confidence == calculateTemplateMatch(text, t)
    IN  IF PassesThreshold(confidence)
        THEN Append(candidates, [template |-> t.id, confidence |-> confidence])
        ELSE candidates

\* x goes before the first element the comparator orders after it
GoesBeforeOrLevel(x, y) == RatGeq(x.confidence, y.confidence)

GoesBefore(x, y) == RatGt(x.confidence, y.confidence)

RECURSIVE InsertSorted(_, _)
InsertSorted(sorted, x) ==
    IF sorted = <<>> THEN <<x>>
    ELSE IF GoesBefore(x, Head(sorted)) THEN <<x>> \o sorted
    ELSE <<Head(sorted)>> \o InsertSorted(Tail(sorted), x)

\* candidates.sort((a, b) => b.confidence - a.confidence): a stable sort
RECURSIVE SortByConfidence(_)
SortByConfidence(s) ==
    IF s = <<>> THEN <<>>
    ELSE InsertSorted(SortByConfidence(SubSeq(s, 1, Len(s) - 1)), s[Len(s)])

\* candidates.sort(...)[0] || null
BestCandidate(candidates) ==
    IF candidates = <<>> THEN None ELSE Some(SortByConfidence(candidates)[1])

\* the confidence computed for each template the loop visits
Confidences(m, text) ==
    [i \in DOMAIN m |->
        [template |-> m[i].id, confidence |-> calculateTemplateMatch(text, m[i])]]

RECURSIVE AllCandidates(_, _)
AllCandidates(m, text) ==
    IF m = <<>> THEN <<>>
    ELSE MatchStep(AllCandidates(SubSeq(m, 1, Len(m) - 1), text), m[Len(m)], text)

-----------------------------------------------------------------------------
(* Payloads of the AI extraction *)

Txn == [type |-> "debit"]
TxnLists == {<<>>, <<Txn>>}

\* JSON.parse of the completion: transactions is a list, or absent
Payloads ==
    [bankName : BankNames, accountNumber : AcctNumbers,
     transactions : {Some(l) : l \in TxnLists} \cup {None}]

MatchPayloads == {d \in Payloads : d.transactions = Some(<<Txn>>)}

MetricsPayloads ==
    {d \in Payloads : d.bankName = "Chase Bank" /\ d.transactions = Some(<<Txn>>)
                      /\ d.accountNumber \in {"1234", "****1234"}}

UserIds == {"u1"}
Accuracies == {85, 95}

\* texts of the documents the pipeline is run on
TextFull ==
    [names |-> {"CHASE BANK"}, accts |-> {"\\d\\d\\d\\d"}, dates |-> {"slash"},
     words |-> {"deposit", "payment"}]
TextBankOnly == [names |-> {"CHASE BANK"}, accts |-> {}, dates |-> {}, words |-> {}]
TextEmpty == [names |-> {}, accts |-> {}, dates |-> {}, words |-> {}]
PipelineTexts == {TextFull, TextBankOnly}

PipelinePayloads ==
    {d \in Payloads : d.bankName = "Chase Bank" /\ d.accountNumber \in {"1234", "****1234"}}

ConcurrentPayloads ==
    {d \in PipelinePayloads : d.accountNumber = "1234" /\ d.transactions = Some(<<Txn>>)}

\* userId?: string, "" when it is not supplied
NoUser == ""

\* The calls of parseWithTemplateSelection in progress.  pc is the await the
\* call is suspended at; the fields after isNewTemplate record what the call
\* has done so far.
Procs == {1, 2}

IdleProc ==
    [pc |-> "idle", selectedTemplateId |-> NoId, userId |-> NoUser, text |-> TextEmpty,
     templateUsed |-> NoId, isNewTemplate |-> FALSE, data |-> None,
     iter |-> 0, candidates |-> <<>>, pending |-> None, snapshot |-> None,
     keysAtResolve |-> {}, matchCalled |-> FALSE, matched |-> NoId,
     templateThrew |-> FALSE, aiRan |-> FALSE, aiFailed |-> FALSE,
     noTemplate |-> FALSE, overlapped |-> FALSE,
     dbFailed |-> "", opRejected |-> FALSE]

Init ==
    /\ templates = <<>>
    /\ idsGenerated = 0
    /\ observed = <<>>
    /\ matchResult = None
    /\ procs = [p \in Procs |-> IdleProc]
    /\ extraction = None
    /\ recognition = None
    /\ exporting = None
    /\ processing = None

-----------------------------------------------------------------------------
(* Operations of TemplateService, called on the service directly *)

CreateTemplateFromAI(data, userId, cap) ==
    /\ idsGenerated < cap
    /\ LET id == generateTemplateId(idsGenerated)
       IN  IF ExtractParsingPatternsThrows(data)
           THEN UNCHANGED <<templates, idsGenerated, observed>>
           ELSE /\ templates' = MapSet(templates, id, NewTemplate(id, data, userId))
                /\ idsGenerated' = idsGenerated + 1
                /\ observed' = (id :> <<0, 0, 0>>) @@ observed
    /\ matchResult' = None
    /\ UNCHANGED <<procs, ioVars>>

UpdateTemplateMetrics(templateId, accuracy, cap) ==
    /\ IF ~MapHas(templates, templateId)
       THEN UNCHANGED <<templates, observed>>
       ELSE LET template == MapGet(templates, templateId)
            IN  /\ template.usageCount < cap
                /\ templates' = MapSet(templates, templateId,
                                       UpdatedMetrics(template, Rat(accuracy, 100)))
                /\ observed' = [observed EXCEPT ![templateId] =
                                   <<@[1] + 1, @[2] + accuracy, @[3] + 1>>]
    /\ matchResult' = None
    /\ UNCHANGED <<idsGenerated, procs, ioVars>>

FindBestTemplate(text) ==
    /\ matchResult = None
    /\ matchResult' = Some([text |-> text,
                            confidences |-> Confidences(templates, text),
                            candidates |-> AllCandidates(templates, text),
                            result |-> BestCandidate(AllCandidates(templates, text))])
    /\ UNCHANGED <<templates, idsGenerated, observed, procs, ioVars>>

NextMetrics ==
    \/ \E d \in MetricsPayloads, u \in UserIds : CreateTemplateFromAI(d, u, MetricsTemplates)
    \/ \E id \in 1..(idsGenerated + 1), a \in Accuracies : UpdateTemplateMetrics(id, a, MaxUsage)

SpecMetrics == Init /\ [][NextMetrics]_vars

NextMatch ==
    \/ \E d \in MatchPayloads, u \in UserIds : CreateTemplateFromAI(d, u, MaxTemplates)
    \/ \E id \in 1..(idsGenerated + 1) : UpdateTemplateMetrics(id, DefaultAccuracy, SmallUsage)
    \/ \E text \in Texts : FindBestTemplate(text)

SpecMatch == Init /\ [][NextMatch]_vars

-----------------------------------------------------------------------------
(* EnhancedPDFParser.parseWithTemplateSelection, one action per await *)

SetProc(p, r) == procs' = [procs EXCEPT ![p] = r]

RECURSIVE InsertByUsage(_, _)
InsertByUsage(sorted, t) ==
    IF sorted = <<>> THEN <<t>>
    ELSE IF t.usageCount > Head(sorted).usageCount THEN <<t>> \o sorted
    ELSE <<Head(sorted)>> \o InsertByUsage(Tail(sorted), t)

\* Array.from(this.templates.values()).sort((a, b) => b.usageCount - a.usageCount)
RECURSIVE getAvailableTemplates(_)
getAvailableTemplates(m) ==
    IF m = <<>> THEN <<>>
    ELSE InsertByUsage(getAvailableTemplates(SubSeq(m, 1, Len(m) - 1)), m[Len(m)])

SelectedIgnored(selectedTemplateId, m) == NoId

\* lines 378-383: the selected template, when an id is given and found
ResolveSelected(selectedTemplateId, m) ==
    IF selectedTemplateId # NoId
       /\ \E i \in DOMAIN getAvailableTemplates(m) :
             getAvailableTemplates(m)[i].id = selectedTemplateId
    THEN selectedTemplateId
    ELSE NoId

\* the call starts: file.arrayBuffer() is awaited
Start(p, selectedTemplateId, userId, text) ==
    /\ procs[p].pc = "idle"
    /\ SetProc(p, [IdleProc EXCEPT !.pc = "extract",
                                   !.selectedTemplateId = selectedTemplateId,
                                   !.userId = userId,
                                   !.text = text])
    /\ UNCHANGED <<templates, idsGenerated, observed, matchResult, ioVars>>

\* the document's text cannot be extracted: the call rejects
ExtractTextFails(p) ==
    /\ procs[p].pc = "extract"
    /\ SetProc(p, [procs[p] EXCEPT !.pc = "threw"])
    /\ UNCHANGED <<templates, idsGenerated, observed, matchResult, ioVars>>

\* the text is extracted; lines 375-389 up to the first await of findBestTemplate
ExtractTextOk(p) ==
    /\ procs[p].pc = "extract"
    /\ LET used == ResolveSelected(procs[p].selectedTemplateId, templates)
       IN  SetProc(p, [procs[p] EXCEPT
                          !.templateUsed = used,
                          !.keysAtResolve = MapKeys(templates),
                          !.matchCalled = (used = NoId),
                          !.iter = IF used = NoId THEN 1 ELSE 0,
                          !.pc = IF used = NoId THEN "match" ELSE "parse"])
    /\ UNCHANGED <<templates, idsGenerated, observed, matchResult, ioVars>>

\* findBestTemplate: one turn of the loop over the live Map, or its end
MatchIterate(p) ==
    /\ procs[p].pc = "match"
    /\ IF procs[p].iter <= Len(templates)
       THEN SetProc(p, [procs[p] EXCEPT
                           !.candidates = MatchStep(@, templates[procs[p].iter], procs[p].text),
                           !.iter = @ + 1])
       ELSE LET best == BestCandidate(procs[p].candidates)
                used == IF best = None THEN NoId ELSE best[1].template
            IN  SetProc(p, [procs[p] EXCEPT
                               !.templateUsed = used,
                               !.matched = used,
                               !.iter = 0,
                               !.candidates = <<>>,
                               !.noTemplate = (used = NoId),
                               !.pc = IF used = NoId THEN "ai" ELSE "parse"])
    /\ UNCHANGED <<templates, idsGenerated, observed, matchResult, ioVars>>

\* another call is between the two halves of updateTemplateMetrics on this id
UpdateInFlight(p, id) ==
    \E q \in Procs \ {p} : procs[q].pc = "persist" /\ procs[q].templateUsed = id

\* parseWithTemplate returns data; updateTemplateMetrics runs up to its await
TemplateParseOk(p, payload, cap) ==
    /\ procs[p].pc = "parse"
    /\ LET id == procs[p].templateUsed
           template == MapGet(templates, id)
           updated == UpdatedMetrics(template, Rat(DefaultAccuracy, 100))
       IN  /\ template.usageCount < cap
           /\ templates' = MapSet(templates, id, updated)
           /\ observed' = [observed EXCEPT ![id] =
                              <<@[1] + 1, @[2] + DefaultAccuracy, @[3]>>]
           /\ SetProc(p, [procs[p] EXCEPT !.data = Some(payload),
                                          !.snapshot = Some(updated),
                                          !.overlapped = UpdateInFlight(p, id),
                                          !.pc = "persist"])
    /\ UNCHANGED <<idsGenerated, matchResult, ioVars>>

AfterTemplateThrowPropagates == "threw"

\* the catch of lines 406-409 goes on to parseWithAI
AfterTemplateThrow == "fallback"

MetricsOnThrowCounted(template) == UpdatedMetrics(template, Rat(DefaultAccuracy, 100))

\* the throw of line 396 skips the updateTemplateMetrics call of lines 402-405:
\* the template stays as it is
MetricsOnThrow(template) == template

\* parseWithTemplate throws (the AI call fails or its answer is no JSON)
TemplateParseThrows(p) ==
    /\ procs[p].pc = "parse"
    /\ templates' = MapSet(templates, procs[p].templateUsed,
                           MetricsOnThrow(MapGet(templates, procs[p].templateUsed)))
    /\ SetProc(p, [procs[p] EXCEPT !.templateThrew = TRUE, !.pc = AfterTemplateThrow])
    /\ UNCHANGED <<idsGenerated, observed, matchResult, ioVars>>

WriteBackCopy(current, mine) == mine

\* this.templates.set(templateId, template): template is the object the Map
\* holds already, so the entry stays as it is now
WriteBack(current, mine) == current

\* updateTemplateInDB resolves; line 129, and the call returns
PersistMetrics(p) ==
    /\ procs[p].pc = "persist"
    /\ LET id == procs[p].templateUsed
       IN  /\ templates' = MapSet(templates, id,
                                  WriteBack(MapGet(templates, id), procs[p].snapshot[1]))
           /\ observed' = [observed EXCEPT ![id] = <<@[1], @[2], @[3] + 1>>]
    /\ SetProc(p, [procs[p] EXCEPT !.snapshot = None, !.pc = "returned"])
    /\ UNCHANGED <<idsGenerated, matchResult, ioVars>>

\* parseWithAI after a failed template parse
FallbackOk(p, payload) ==
    /\ procs[p].pc = "fallback"
    /\ SetProc(p, [procs[p] EXCEPT !.aiRan = TRUE, !.data = Some(payload),
                                   !.pc = "returned"])
    /\ UNCHANGED <<templates, idsGenerated, observed, matchResult, ioVars>>

FallbackFails(p) ==
    /\ procs[p].pc = "fallback"
    /\ SetProc(p, [procs[p] EXCEPT !.aiRan = TRUE, !.aiFailed = TRUE, !.pc = "threw"])
    /\ UNCHANGED <<templates, idsGenerated, observed, matchResult, ioVars>>

\* parseWithAI without a template fails: the call rejects
AiFails(p) ==
    /\ procs[p].pc = "ai"
    /\ SetProc(p, [procs[p] EXCEPT !.aiRan = TRUE, !.aiFailed = TRUE, !.pc = "threw"])
    /\ UNCHANGED <<templates, idsGenerated, observed, matchResult, ioVars>>

HasTransactionsAlways(transactions) == TRUE

\* bankStatementData.transactions.length > 0
HasTransactions(transactions) == Len(transactions) > 0

\* parseWithAI without a template returns data; lines 415-421 up to the await
\* of saveTemplate
AiOk(p, payload, cap) ==
    /\ procs[p].pc = "ai"
    /\ LET r == [procs[p] EXCEPT !.aiRan = TRUE, !.data = Some(payload)]
       IN  IF r.userId = NoUser
           THEN /\ SetProc(p, [r EXCEPT !.pc = "returned"])
                /\ UNCHANGED idsGenerated
           ELSE IF payload.transactions = None
           THEN /\ SetProc(p, [r EXCEPT !.pc = "threw"])
                /\ UNCHANGED idsGenerated
           ELSE IF ~HasTransactions(payload.transactions[1])
           THEN /\ SetProc(p, [r EXCEPT !.pc = "returned"])
                /\ UNCHANGED idsGenerated
           ELSE IF ExtractParsingPatternsThrows(payload)
           THEN /\ SetProc(p, [r EXCEPT !.pc = "threw"])
                /\ UNCHANGED idsGenerated
           ELSE /\ idsGenerated < cap
                /\ idsGenerated' = idsGenerated + 1
                /\ SetProc(p, [r EXCEPT
                      !.pending = Some(NewTemplate(generateTemplateId(idsGenerated),
                                                   payload, r.userId)),
                      !.pc = "save"])
    /\ UNCHANGED <<templates, observed, matchResult, ioVars>>

\* saveTemplate resolves; line 103, createTemplateFromAI returns, line 421
SaveTemplate(p) ==
    /\ procs[p].pc = "save"
    /\ LET template == procs[p].pending[1]
       IN  /\ templates' = MapSet(templates, template.id, template)
           /\ observed' = (template.id :> <<0, 0, 0>>) @@ observed
           /\ SetProc(p, [procs[p] EXCEPT !.templateUsed = template.id,
                                          !.isNewTemplate = TRUE,
                                          !.pending = None,
                                          !.pc = "returned"])
    /\ UNCHANGED <<idsGenerated, matchResult, ioVars>>

\* saveTemplate rejects: createTemplateFromAI has no handler around line 102,
\* so line 103 is not reached and the rejection leaves createTemplateFromAI and,
\* line 416 being outside any try, parseWithTemplateSelection
SaveTemplateFails(p) ==
    /\ procs[p].pc = "save"
    /\ SetProc(p, [procs[p] EXCEPT !.dbFailed = "save", !.opRejected = TRUE,
                                   !.pc = "threw"])
    /\ UNCHANGED <<templates, idsGenerated, observed, matchResult, ioVars>>

\* updateTemplateInDB rejects: lines 117-126 have run, line 129 is not reached,
\* updateTemplateMetrics rejects and the catch of lines 406-409 takes it
PersistMetricsFails(p) ==
    /\ procs[p].pc = "persist"
    /\ observed' = [observed EXCEPT ![procs[p].templateUsed] = <<@[1], @[2], @[3] + 1>>]
    /\ SetProc(p, [procs[p] EXCEPT !.dbFailed = "update", !.opRejected = TRUE,
                                   !.pc = "fallback"])
    /\ UNCHANGED <<templates, idsGenerated, matchResult, ioVars>>

\* the caller has the result (or the error): the call is over
Settle(p) ==
    /\ procs[p].pc \in {"returned", "threw"}
    /\ SetProc(p, IdleProc)
    /\ UNCHANGED <<templates, idsGenerated, observed, matchResult, ioVars>>

Step(p, texts, payloads, usageCap) ==
    \/ \E sel \in 0..(idsGenerated + 1), u \in UserIds \cup {NoUser}, text \in texts :
          Start(p, sel, u, text)
    \/ ExtractTextFails(p)
    \/ ExtractTextOk(p)
    \/ MatchIterate(p)
    \/ \E d \in payloads : TemplateParseOk(p, d, usageCap)
    \/ TemplateParseThrows(p)
    \/ PersistMetrics(p)
    \/ \E d \in payloads : FallbackOk(p, d)
    \/ FallbackFails(p)
    \/ AiFails(p)
    \/ \E d \in payloads : AiOk(p, d, MaxTemplates)
    \/ SaveTemplate(p)
    \/ Settle(p)

\* one document at a time
NextPipeline == Step(1, PipelineTexts, PipelinePayloads, MaxUsage)

SpecPipeline == Init /\ [][NextPipeline]_vars

\* one document at a time, and calls of updateTemplateMetrics made on the
\* service with an id that is not in the catalogue (line 110-111)
NextUpkeep ==
    \/ Step(1, PipelineTexts, PipelinePayloads, MaxUsage)
    \/ \E id \in (1..(idsGenerated + 1)) \ MapKeys(templates), a \in Accuracies :
          UpdateTemplateMetrics(id, a, MaxUsage)

SpecUpkeep == Init /\ [][NextUpkeep]_vars

\* documents processed concurrently
NextConcurrent ==
    \E p \in Procs : Step(p, {TextFull}, ConcurrentPayloads, ConcurrentUsage)

SpecConcurrent == Init /\ [][NextConcurrent]_vars

\* one document at a time, over a persistence interface that can fail
NextPersistence ==
    \/ Step(1, PipelineTexts, PipelinePayloads, SmallUsage)
    \/ SaveTemplateFails(1)
    \/ PersistMetricsFails(1)

SpecPersistence == Init /\ [][NextPersistence]_vars

-----------------------------------------------------------------------------
(* AI-assisted whole-document extraction: extractBankStatementData and the   *)
(* parsePDFStatement built on it (src/unnamed/part_001, lines 425-594)       *)

\* pages of a document
MaxPages == 2
\* transactions in a payload of the AI
MaxAiTxns == 2

\* the values of "type" the AI may write; the prompt asks for the first two
AiTypes == {"debit", "credit", "transfer"}

RECURSIVE SeqsUpTo(_, _)
\* the sequences of at most n elements of S
SeqsUpTo(S, n) ==
    IF n = 0 THEN {<<>>}
    ELSE SeqsUpTo(S, n - 1) \cup
         {Append(q, x) : q \in {r \in SeqsUpTo(S, n - 1) : Len(r) = n - 1}, x \in S}

\* the objects a completion may denote: transactions is a list, or is absent
\* the dates the payload gives its transactions, <<year, month, day>> of the
\* YYYY-MM-DD string
AiDates == {<<2024, 3, 10>>, <<2024, 3, 20>>}

AiPayloads ==
    [bankName : BankNames, accountNumber : {"1234"},
     transactions : {Some(l) : l \in SeqsUpTo([type : AiTypes, date : AiDates],
                                              MaxAiTxns)} \cup {None}]

\* A string, by what JSON.parse makes of it: the empty string, text that is
\* not JSON, or the text of an object.
EmptyString == [kind |-> "empty", value |-> None]
NotJson == [kind |-> "text", value |-> None]
JsonOf(v) == [kind |-> "json", value |-> Some(v)]
JsonStrings == {NotJson} \cup {JsonOf(v) : v \in AiPayloads}

\* A completion: the capture of /```json\n([\s\S]*?)\n```/ when the pattern
\* matches, and the whole string.  callAI rejects an empty completion, and a
\* string that holds a fenced block is not itself JSON.
Responses ==
    {[fence |-> None, whole |-> w] : w \in JsonStrings}
    \cup {[fence |-> Some(f), whole |-> NotJson] : f \in JsonStrings \cup {EmptyString}}

\* JSON.parse(str): the value, or a SyntaxError
JSONParse(str) ==
    IF str.kind = "json" THEN [threw |-> FALSE, value |-> str.value]
    ELSE [threw |-> TRUE, value |-> None]

\* jsonMatch && jsonMatch[1]: the empty string is falsy
UsesFence(response) == response.fence # None /\ response.fence[1].kind # "empty"

OnParseErrorEmptyRecord(parsed) ==
    IF parsed.threw
    THEN [threw |-> FALSE,
          value |-> Some([bankName |-> "Chase", accountNumber |-> "1234",
                          transactions |-> Some(<<>>)])]
    ELSE parsed

\* the catch of lines 551-561: a SyntaxError becomes the Error that is thrown
OnParseError(parsed) == parsed

\* lines 542-561 on the completion callAI resolved to
extractBankStatementData(response) ==
    OnParseError(IF UsesFence(response)
                 THEN JSONParse(response.fence[1])
                 ELSE JSONParse(response.whole))

\* the message of the Error extractBankStatementData throws (lines 557-559)
InvalidJsonMessage ==
    "The AI model returned invalid JSON. Please check the raw response for details."

\* the message of the Error callAI rejects with: that of the request, or
\* "No response from AI API" (lines 458-464)
AICallMessage == "No response from AI API"

\* the message of the error pdf.js rejects with
ReadMessage == "Invalid PDF structure"

\* the catch of lines 551-561: whatever was thrown in the try block, the
\* rejection of callAI or the SyntaxError of JSON.parse, is logged and the same
\* new Error is thrown
Raised(cause) == InvalidJsonMessage

IdleExtraction ==
    [pc |-> "idle", numPages |-> 0, page |-> 0, response |-> None,
     extracted |-> "", data |-> None, error |-> ""]

InitExtraction ==
    /\ templates = <<>>
    /\ idsGenerated = 0
    /\ observed = <<>>
    /\ matchResult = None
    /\ procs = [p \in Procs |-> IdleProc]
    /\ extraction = IdleExtraction
    /\ recognition = None
    /\ exporting = None
    /\ processing = None

ExtractionUnchanged ==
    UNCHANGED <<templates, idsGenerated, observed, matchResult, procs,
                recognition, exporting, processing>>

\* parsePDFStatement(file): file.arrayBuffer() and getDocument are awaited
ParsePDFStart(numPages) ==
    /\ extraction.pc = "idle"
    /\ extraction' = [IdleExtraction EXCEPT !.pc = "open", !.numPages = numPages]
    /\ ExtractionUnchanged

\* the document cannot be read, or a page cannot: the catch of lines 586-593
\* rethrows
ReadFails ==
    /\ extraction.pc \in {"open", "page"}
    /\ extraction' = [extraction EXCEPT !.pc = "threw", !.error = ReadMessage]
    /\ ExtractionUnchanged

\* the document is open: the loop of lines 573-580 starts, or, with no page,
\* extractBankStatementData is called and awaits callAI
OpenOk ==
    /\ extraction.pc = "open"
    /\ extraction' = [extraction EXCEPT
                         !.page = IF extraction.numPages >= 1 THEN 1 ELSE 0,
                         !.pc = IF extraction.numPages >= 1 THEN "page" ELSE "ai"]
    /\ ExtractionUnchanged

\* one page's text is appended; after the last, line 583 up to the await of
\* callAI
PageOk ==
    /\ extraction.pc = "page"
    /\ extraction' = [extraction EXCEPT
                         !.page = IF @ < extraction.numPages THEN @ + 1 ELSE @,
                         !.pc = IF extraction.page < extraction.numPages
                                THEN "page" ELSE "ai"]
    /\ ExtractionUnchanged

\* callAI rejects (the request fails, or the completion is empty): the catch
\* of lines 551-561 throws, and the catch of lines 586-593 rethrows
CallAIFails ==
    /\ extraction.pc = "ai"
    /\ extraction' = [extraction EXCEPT !.extracted = "threw", !.pc = "threw",
                                         !.error = Raised("call")]
    /\ ExtractionUnchanged

\* callAI resolves: lines 542-561, then line 585 or the catch of 586-593
CallAIResolves(response) ==
    /\ extraction.pc = "ai"
    /\ LET result == extractBankStatementData(response)
       IN  extraction' = [extraction EXCEPT
                             !.response = Some(response),
                             !.extracted = IF result.threw THEN "threw" ELSE "returned",
                             !.data = result.value,
                             !.error = IF result.threw THEN Raised("parse") ELSE "",
                             !.pc = IF result.threw THEN "threw" ELSE "returned"]
    /\ ExtractionUnchanged

\* the caller has the record (or the error)
ExtractionSettles ==
    /\ extraction.pc \in {"returned", "threw"}
    /\ extraction' = IdleExtraction
    /\ ExtractionUnchanged

NextExtraction ==
    \/ \E n \in 0..MaxPages : ParsePDFStart(n)
    \/ ReadFails
    \/ OpenOk
    \/ PageOk
    \/ CallAIFails
    \/ \E response \in Responses : CallAIResolves(response)
    \/ ExtractionSettles

SpecExtraction == InitExtraction /\ [][NextExtraction]_vars

-----------------------------------------------------------------------------
(* The feedback hook: handleCategoryFeedback over                            *)
(* retrainCategoryFromFeedback, which asks the AI for keywords               *)

MaxKeywords == 2

\* the values JSON.parse can make of a completion here: an array of keywords,
\* or an object
JsonArray(items) == [kind |-> "array", items |-> items]
JsonObject == [kind |-> "object", items |-> <<>>]

KeywordLists == {JsonArray(l) : l \in SeqsUpTo({"coffee", "cafe", "latte"}, MaxKeywords)}

\* the completions: prose, an array or an object as JSON, and an array inside a
\* fenced block, which is not itself JSON
FeedbackResponses ==
    {[fence |-> None, whole |-> w] :
        w \in {NotJson} \cup {JsonOf(v) : v \in KeywordLists \cup {JsonObject}}}
    \cup {[fence |-> Some(JsonOf(JsonArray(<<"coffee">>))), whole |-> NotJson]}

\* lines 54-61, once callAI has resolved: JSON.parse of the whole completion
retrainCategoryFromFeedback(response) == JSONParse(response.whole)

OnFeedbackErrorRethrows(result) == result

\* the catch of lines 419-422: whatever was thrown, the empty list is returned
OnFeedbackError(result) ==
    IF result.threw THEN [threw |-> FALSE, value |-> Some(JsonArray(<<>>))]
    ELSE result

IdleFeedback ==
    [pc |-> "idle", description |-> "", correctCategory |-> "", response |-> None,
     callFailed |-> FALSE, threw |-> FALSE, returned |-> None]

InitFeedback ==
    /\ templates = <<>>
    /\ idsGenerated = 0
    /\ observed = <<>>
    /\ matchResult = None
    /\ procs = [p \in Procs |-> IdleProc]
    /\ extraction = IdleFeedback
    /\ recognition = None
    /\ exporting = None
    /\ processing = None

\* handleCategoryFeedback(description, correctCategory) up to the await of
\* callAI at line 59
FeedbackStart(description, correctCategory) ==
    /\ extraction.pc = "idle"
    /\ extraction' = [IdleFeedback EXCEPT !.pc = "ai", !.description = description,
                                          !.correctCategory = correctCategory]
    /\ ExtractionUnchanged

\* callAI rejects: retrainCategoryFromFeedback rejects, and the catch returns
FeedbackCallFails ==
    /\ extraction.pc = "ai"
    /\ LET result == OnFeedbackError([threw |-> TRUE, value |-> None])
       IN  extraction' = [extraction EXCEPT !.callFailed = TRUE,
                                            !.threw = result.threw,
                                            !.returned = result.value,
                                            !.pc = "settled"]
    /\ ExtractionUnchanged

\* callAI resolves: line 60, then line 418 or the catch
FeedbackCallResolves(response) ==
    /\ extraction.pc = "ai"
    /\ LET result == OnFeedbackError(retrainCategoryFromFeedback(response))
       IN  extraction' = [extraction EXCEPT !.response = Some(response),
                                            !.threw = result.threw,
                                            !.returned = result.value,
                                            !.pc = "settled"]
    /\ ExtractionUnchanged

\* the caller has the list
FeedbackSettles ==
    /\ extraction.pc = "settled"
    /\ extraction' = IdleFeedback
    /\ ExtractionUnchanged

NextFeedback ==
    \/ \E d \in {"STARBUCKS COFFEE", "RENT", "UBER"}, c \in {"Food", "Housing"} :
          FeedbackStart(d, c)
    \/ FeedbackCallFails
    \/ \E response \in FeedbackResponses : FeedbackCallResolves(response)
    \/ FeedbackSettles

SpecFeedback == InitFeedback /\ [][NextFeedback]_vars

-----------------------------------------------------------------------------
(* The useFileProcessor hook: processFiles, which shows its progress in      *)
(* processingSteps and calls parsePDFStatement on the first uploaded file    *)

MaxFiles == 2

\* initializeSteps (lines 78-119): the array it builds
InitialSteps ==
    << [id |-> "upload", status |-> "completed",
        description |-> "PDF files uploaded successfully"],
       [id |-> "extract", status |-> "pending",
        description |-> "Extracting text content from PDF"],
       [id |-> "detect", status |-> "pending",
        description |-> "Identifying bank format and structure"],
       [id |-> "parse", status |-> "pending",
        description |-> "Extracting transaction data"],
       [id |-> "categorize", status |-> "pending",
        description |-> "Categorizing transactions and cleaning data"],
       [id |-> "validate", status |-> "pending",
        description |-> "Validating extracted data"] >>

\* updateStep (lines 121-127) on the state prev; "" is no description given
updateStep(prev, stepId, status, description) ==
    [k \in DOMAIN prev |->
        IF prev[k].id = stepId
        THEN [prev[k] EXCEPT !.status = status,
                             !.description = IF description # "" THEN description ELSE @]
        ELSE prev[k]]

\* steps.find(step => step.status === 'processing'): its place, 0 for none
FindProcessing(steps) ==
    IF \E k \in DOMAIN steps : steps[k].status = "processing"
    THEN CHOOSE k \in DOMAIN steps :
            /\ steps[k].status = "processing"
            /\ \A j \in 1..(k - 1) : steps[j].status # "processing"
    ELSE 0

\* the message of the Error parsePDFStatement throws (part_001:588-592)
FailedToParse(message) ==
    IF message = InvalidJsonMessage
    THEN "Failed to parse PDF statement: The AI model returned invalid JSON. Please check the raw response for details.. Please ensure the file is a valid bank statement."
    ELSE "Failed to parse PDF statement: Invalid PDF structure. Please ensure the file is a valid bank statement."

\* prev.map(f => f.id === id ? {...f, status} : f)
SetFileStatus(files, id, status) ==
    [k \in DOMAIN files |->
        IF files[k].id = id THEN [files[k] EXCEPT !.status = status] ELSE files[k]]

\* prev.map(f => f.status === 'processing' ? {...f, status: 'error'} : f)
FailProcessingFiles(files) ==
    [k \in DOMAIN files |->
        IF files[k].status = "processing" THEN [files[k] EXCEPT !.status = "error"]
        ELSE files[k]]

InitProcessor ==
    /\ templates = <<>>
    /\ idsGenerated = 0
    /\ observed = <<>>
    /\ matchResult = None
    /\ procs = [p \in Procs |-> IdleProc]
    /\ extraction = IdleExtraction
    /\ recognition = None
    /\ exporting = None
    /\ \E n \in 0..MaxFiles :
          processing = [pc |-> "idle",
                        uploadedFiles |-> [k \in 1..n |->
                                             [id |-> k, status |-> "ready",
                                              bankDetected |-> ""]],
                        processingSteps |-> <<>>,
                        steps |-> <<>>,
                        parsedData |-> None,
                        bankData |-> None,
                        isProcessing |-> FALSE,
                        isComplete |-> FALSE,
                        error |-> ""]

ProcessorUnchanged ==
    UNCHANGED <<templates, idsGenerated, observed, matchResult, procs,
                recognition, exporting>>

\* processFiles with no file uploaded: line 130 returns
ProcessNoFiles ==
    /\ processing.pc = "idle"
    /\ processing.uploadedFiles = <<>>
    /\ UNCHANGED <<processing, extraction>>
    /\ ProcessorUnchanged

\* processFiles, lines 130-150: up to the first timer
ProcessFilesStart ==
    /\ processing.pc = "idle"
    /\ processing.uploadedFiles # <<>>
    /\ processing' = [processing EXCEPT
          !.isProcessing = TRUE,
          !.isComplete = FALSE,
          !.error = "",
          !.bankData = None,
          !.parsedData = None,
          !.steps = InitialSteps,
          !.processingSteps = updateStep(InitialSteps, "extract", "processing",
                                         "Reading PDF content..."),
          !.uploadedFiles = SetFileStatus(@, @[1].id, "processing"),
          !.pc = "extract"]
    /\ UNCHANGED extraction
    /\ ProcessorUnchanged

\* the timer of line 150 fires: lines 153-155
ExtractTimer ==
    /\ processing.pc = "extract"
    /\ processing' = [processing EXCEPT
          !.processingSteps = updateStep(updateStep(@, "extract", "completed", ""),
                                         "detect", "processing",
                                         "Analyzing bank format..."),
          !.pc = "detect"]
    /\ UNCHANGED extraction
    /\ ProcessorUnchanged

\* the timer of line 155 fires: lines 158-161, where parsePDFStatement is
\* called and awaits file.arrayBuffer()
DetectTimer(numPages) ==
    /\ processing.pc = "detect"
    /\ processing' = [processing EXCEPT
          !.processingSteps = updateStep(updateStep(@, "detect", "completed", ""),
                                         "parse", "processing",
                                         "Extracting transactions..."),
          !.pc = "parse"]
    /\ extraction' = [IdleExtraction EXCEPT !.pc = "open", !.numPages = numPages]
    /\ ProcessorUnchanged

\* parsePDFStatement resolves: lines 164-171
ParseResolves ==
    /\ processing.pc = "parse"
    /\ extraction.pc = "returned"
    /\ processing' = [processing EXCEPT
          !.parsedData = extraction.data,
          !.uploadedFiles = [k \in DOMAIN @ |->
                               IF @[k].id = @[1].id
                               THEN [@[k] EXCEPT !.bankDetected = extraction.data[1].bankName]
                               ELSE @[k]],
          !.processingSteps = updateStep(updateStep(@, "parse", "completed", ""),
                                         "categorize", "processing",
                                         "Categorizing transactions..."),
          !.pc = "categorize"]
    /\ extraction' = IdleExtraction
    /\ ProcessorUnchanged

\* parsePDFStatement rejects: the catch of lines 189-203 and the finally.
\* currentStep is looked for in steps, the array initializeSteps returned.
ParseRejects ==
    /\ processing.pc = "parse"
    /\ extraction.pc = "threw"
    /\ LET errorMessage == FailedToParse(extraction.error)
           currentStep == FindProcessing(processing.steps)
       IN  processing' = [processing EXCEPT
              !.error = errorMessage,
              !.processingSteps = IF currentStep # 0
                                  THEN updateStep(@, processing.steps[currentStep].id,
                                                  "error", errorMessage)
                                  ELSE @,
              !.uploadedFiles = FailProcessingFiles(@),
              !.isProcessing = FALSE,
              !.pc = "idle"]
    /\ extraction' = IdleExtraction
    /\ ProcessorUnchanged

\* the timer of line 171 fires: lines 174-176
CategorizeTimer ==
    /\ processing.pc = "categorize"
    /\ processing' = [processing EXCEPT
          !.processingSteps = updateStep(updateStep(@, "categorize", "completed", ""),
                                         "validate", "processing",
                                         "Validating data integrity..."),
          !.pc = "validate"]
    /\ UNCHANGED extraction
    /\ ProcessorUnchanged

\* the timer of line 176 fires: lines 178-187 and the finally
ValidateTimer ==
    /\ processing.pc = "validate"
    /\ processing' = [processing EXCEPT
          !.processingSteps = updateStep(@, "validate", "completed",
                                         "Data validation complete"),
          !.bankData = processing.parsedData,
          !.uploadedFiles = SetFileStatus(@, @[1].id, "completed"),
          !.isComplete = TRUE,
          !.isProcessing = FALSE,
          !.pc = "idle"]
    /\ UNCHANGED extraction
    /\ ProcessorUnchanged

\* the steps of the parsePDFStatement call processFiles awaits
ParsePDFStep ==
    \/ ReadFails
    \/ OpenOk
    \/ PageOk

\* the AI service answers the call, or fails it
AIResponds ==
    \/ CallAIFails
    \/ \E response \in Responses : CallAIResolves(response)

ProcessorStep ==
    \/ ProcessNoFiles
    \/ ProcessFilesStart
    \/ ExtractTimer
    \/ \E n \in 0..MaxPages : DetectTimer(n)
    \/ ParseResolves
    \/ ParseRejects
    \/ CategorizeTimer
    \/ ValidateTimer

NextProcessor ==
    \/ ProcessorStep
    \/ ParsePDFStep
    \/ AIResponds

SpecProcessor == InitProcessor /\ [][NextProcessor]_vars

\* The timers fire, pdf.js settles the reads, and the continuations of
\* processFiles run.  Nothing bounds the generateContent request of callAI
\* (part_001:450-466: no timeout, no abort signal): the service answers if and
\* when it does.
SpecProcessorFair ==
    /\ InitProcessor
    /\ [][NextProcessor]_vars
    /\ WF_vars(ProcessorStep)
    /\ WF_vars(ParsePDFStep)

-----------------------------------------------------------------------------
(* The pattern recognizer: parseTransactions, parseTransactionsAlternative   *)
(* and normalizeDate (src/unnamed/part_002; src/src/utils/pdfParser.ts has   *)
(* the same functions)                                                       *)
(*                                                                           *)
(* A line of text is a sequence of tokens separated by single spaces: a date *)
(* written M/D/Y, a word of letters, or an amount with two decimals.  A      *)
(* string is a sequence of tokens (the last one possibly cut after its       *)
(* leading digits), or a date in ISO form.  Amounts are counted in cents.    *)

DateTok(m, d, y) == [kind |-> "date", m |-> m, d |-> d, y |-> y, cents |-> 0, word |-> ""]
WordTok(w) == [kind |-> "word", m |-> 0, d |-> 0, y |-> 0, cents |-> 0, word |-> w]
AmtTok(c) == [kind |-> "amt", m |-> 0, d |-> 0, y |-> 0, cents |-> c, word |-> ""]

StrOf(toks, cut) == [form |-> "text", toks |-> toks, cut |-> cut, y |-> 0, m |-> 0, d |-> 0]
IsoDate(y, m, d) == [form |-> "iso", toks |-> <<>>, cut |-> FALSE, y |-> y, m |-> m, d |-> d]

\* a JavaScript number that may be NaN
NaN == [nan |-> TRUE, cents |-> 0]
Num(c) == [nan |-> FALSE, cents |-> c]

\* parseFloat(str.replace(/[\$,]/g, "")): the leading number of the string; of
\* a date written 03/15/2024 that is 3
parseFloat(str) ==
    IF str.form = "iso" THEN Num(100 * str.y)
    ELSE IF str.toks = <<>> THEN NaN
    ELSE LET t == str.toks[1]
         IN  IF t.kind = "date" THEN Num(100 * t.m)
             ELSE IF t.kind = "amt" THEN Num(t.cents)
             ELSE NaN

IsLeapYear(y) == (y % 4 = 0 /\ y % 100 # 0) \/ y % 400 = 0

DaysInMonth(y, m) ==
    IF m = 2 THEN (IF IsLeapYear(y) THEN 29 ELSE 28)
    ELSE IF m \in {4, 6, 9, 11} THEN 30
    ELSE 31

\* the calendar day before <<y, m, d>>
PrevDay(date) ==
    LET y == date[1]
        m == date[2]
        d == date[3]
    IN  IF d > 1 THEN <<y, m, d - 1>>
        ELSE IF m > 1 THEN <<y, m - 1, DaysInMonth(y, m - 1)>>
        ELSE <<y - 1, 12, 31>>

\* yearPart += yearPart < 50 ? 2000 : 1900, for yearPart < 100
FullYear(y) == IF y < 100 THEN (IF y < 50 THEN y + 2000 ELSE y + 1900) ELSE y

\* A Date is <<y, m, d>> at midnight, local or UTC.  toISOString() prints the
\* UTC day: where local time is ahead of UTC, local midnight is the day before.
ToISODate(date, isLocal, tzAhead) ==
    LET utc == IF isLocal /\ tzAhead THEN PrevDay(date) ELSE date
    IN  IsoDate(utc[1], utc[2], utc[3])

\* the number of "/" and "-" in a string: parts.length - 1 of line 268
SeparatorCount(str) ==
    LET n == Len(str.toks)
        Of(i) == LET t == str.toks[i]
                 IN  IF t.kind = "date" THEN (IF str.cut /\ i = n THEN 0 ELSE 2)
                     ELSE IF t.kind = "amt" /\ t.cents < 0 THEN 1
                     ELSE 0
        Sum[i \in 0..n] == IF i = 0 THEN 0 ELSE Sum[i - 1] + Of(i)
    IN  IF str.form = "iso" THEN 2 ELSE Sum[n]

\* the date <<y, m, d>> stands for when d may pass the end of the month (d is
\* at most 31): MakeDay carries the days over into the next month
CarryDays(y, m, d) ==
    IF d <= DaysInMonth(y, m) THEN <<y, m, d>>
    ELSE IF m < 12 THEN <<y, m + 1, d - DaysInMonth(y, m)>>
    ELSE <<y + 1, 1, d - DaysInMonth(y, m)>>

NewDateAllLocal(str, lenient) ==
    IF str.form = "iso"
    THEN <<TRUE, CarryDays(str.y, str.m, str.d), TRUE>>
    ELSE IF str.toks # <<>> /\ str.toks[1].kind = "date"
            /\ ~(str.cut /\ Len(str.toks) = 1)
            /\ (Len(str.toks) = 1 \/ lenient)
    THEN <<TRUE, <<FullYear(str.toks[1].y), str.toks[1].m, str.toks[1].d>>, TRUE>>
    ELSE <<FALSE, <<0, 0, 0>>, FALSE>>

\* new Date(dateStr): <<valid, date, isLocal>>.  An ISO date is read as UTC and
\* M/D/Y as local time.  Where the string is not of a format the language
\* fixes, Date.parse is implementation-defined: a date followed by other text
\* is an Invalid Date or, to a lenient engine, the date it starts with; a
\* YYYY-MM-DD string whose day the month does not have is an Invalid Date or,
\* to a lenient engine, the day that many days into the next month.
NewDateOfString(str, lenient) ==
    IF str.form = "iso"
    THEN IF str.d <= DaysInMonth(str.y, str.m) \/ lenient
         THEN <<TRUE, CarryDays(str.y, str.m, str.d), FALSE>>
         ELSE <<FALSE, <<0, 0, 0>>, FALSE>>
    ELSE IF str.toks # <<>> /\ str.toks[1].kind = "date"
            /\ ~(str.cut /\ Len(str.toks) = 1)
            /\ (Len(str.toks) = 1 \/ lenient)
    THEN <<TRUE, <<FullYear(str.toks[1].y), str.toks[1].m, str.toks[1].d>>, TRUE>>
    ELSE <<FALSE, <<0, 0, 0>>, FALSE>>

\* lines 259-294
normalizeDate(dateStr, tzAhead, lenient) ==
    LET date == NewDateOfString(dateStr, lenient)
    IN  IF date[1] THEN ToISODate(date[2], date[3], tzAhead)
        ELSE IF SeparatorCount(dateStr) = 2 /\ dateStr.toks # <<>>
                /\ dateStr.toks[1].kind = "date" /\ ~(dateStr.cut /\ Len(dateStr.toks) = 1)
        THEN \* parts[2] begins with the year: parseInt reads it
             LET t == dateStr.toks[1]
             IN  ToISODate(<<FullYear(t.y), t.m, t.d>>, TRUE, tzAhead)
        ELSE IF dateStr.form = "iso"
        THEN \* parts are YYYY, MM and DD, read as month, day and year: the
             \* months past December carry over into the years
             ToISODate(<<FullYear(dateStr.d) + ((dateStr.y - 1) \div 12),
                         ((dateStr.y - 1) % 12) + 1, dateStr.m>>, TRUE, tzAhead)
        ELSE dateStr

\* the destructuring of line 159 reads the amount from element 3 of the array
\* line.match returns: the array needs this many elements
MatchesForAmount == 4

\* a token whose first character is in [\-\$\d,\.]: an amount, or a date
\* (its leading digits)
StartsAmountish(t) == t.kind \in {"amt", "date"}

\* a token whose first character is in [\$\d,\.]
StartsBalanceish(t) == (t.kind = "amt" /\ t.cents >= 0) \/ t.kind = "date"

\* One match of the generic transactionPattern starting at token i: the date,
\* a description that is as short as possible and at least one token long,
\* the first token after it that [\-\$\d,\.]+ can start in, and the optional
\* balance.  Of a date taken as amount or as balance only the leading digits
\* are consumed.  The result is the last token consumed and whether it is cut.
MatchAt(line, i) ==
    IF line[i].kind # "date" THEN None
    ELSE LET ks == {k \in (i + 2)..Len(line) : StartsAmountish(line[k])}
         IN  IF ks = {} THEN None
             ELSE LET k == CHOOSE x \in ks : \A z \in ks : x <= z
                  IN  IF line[k].kind = "date"
                      THEN Some([from |-> i, to |-> k, cut |-> TRUE])
                      ELSE IF k < Len(line) /\ StartsBalanceish(line[k + 1])
                      THEN Some([from |-> i, to |-> k + 1,
                                 cut |-> line[k + 1].kind = "date"])
                      ELSE Some([from |-> i, to |-> k, cut |-> FALSE])

RECURSIVE MatchAll(_, _)
\* line.match(pattern.transactionPattern) with the g flag of lines 53-54: the
\* array of the whole matches, found from left to right without overlap; the
\* capture groups are not in it
MatchAll(line, i) ==
    IF i > Len(line) THEN <<>>
    ELSE LET found == MatchAt(line, i)
         IN  IF found = None THEN MatchAll(line, i + 1)
             ELSE <<StrOf(SubSeq(line, found[1].from, found[1].to), found[1].cut)>>
                  \o MatchAll(line, found[1].to + 1)

TypeOfMagnitude(cleanAmount) == IF Abs(cleanAmount) < 0 THEN "debit" ELSE "credit"

\* cleanAmount < 0 ? "debit" : "credit"
TypeOf(cleanAmount) == IF cleanAmount < 0 THEN "debit" ELSE "credit"

\* The object pushed at lines 175-182 and 242-249.  signed, strategy and
\* recognized are not fields of the program's object: they record the signed
\* amount it was made from, the strategy that made it and its position in the
\* order of recognition.
Transaction(date, description, cleanAmount, strategy, recognized) ==
    [date |-> date, description |-> description, amount |-> Abs(cleanAmount),
     type |-> TypeOf(cleanAmount), signed |-> cleanAmount, strategy |-> strategy,
     recognized |-> recognized]

\* lines 157-184: what one line adds to the transactions found so far
PrimaryOfLine(line, found, tzAhead, lenient) ==
    LET match == MatchAll(line, 1)
    IN  IF Len(match) < MatchesForAmount THEN <<>>
        ELSE LET date == match[2]
                 description == match[3]
                 cleanAmount == parseFloat(match[MatchesForAmount])
             IN  IF cleanAmount.nan THEN <<>>
                 ELSE <<Transaction(normalizeDate(date, tzAhead, lenient), description,
                                    cleanAmount.cents, "primary", found + 1)>>

\* the lines the loop of line 215 looks at
WindowLines == 3

\* the tokens /([\-\$]?[\d,]+\.[\d]{2})/g matches in a line
AmountsOf(line) == SelectSeq(line, LAMBDA t : t.kind = "amt")

RECURSIVE RemoveFirst(_, _)
\* currentLine.replace(dateMatch[0], ""): the first occurrence goes
RemoveFirst(line, t) ==
    IF line = <<>> THEN <<>>
    ELSE IF Head(line) = t THEN Tail(line)
    ELSE <<Head(line)>> \o RemoveFirst(Tail(line), t)

\* lines 215-239: <<description, amount>> after the lines i, i+1, ... of the
\* window, from line i + j on, with the description gathered so far
RECURSIVE Window(_, _, _, _, _)
Window(lines, i, j, date, description) ==
    IF ~(j < WindowLines /\ i + j <= Len(lines)) THEN <<description, 0>>
    ELSE LET currentLine == lines[i + j]
             amountMatch == AmountsOf(currentLine)
         IN  IF amountMatch # <<>>
             THEN <<RemoveFirst(SelectSeq(currentLine, LAMBDA t : t.kind # "amt"), date),
                    amountMatch[1].cents>>
             ELSE Window(lines, i, j + 1, date,
                         description \o RemoveFirst(currentLine, date))

IsCandidateAlways(description, amount) == TRUE

\* line 241: !isNaN(amount) && amount !== 0 && description.trim()
IsCandidate(description, amount) == amount # 0 /\ description # <<>>

\* lines 201-251: what line i adds
AlternativeOfLine(lines, i, found, tzAhead, lenient) ==
    LET dates == SelectSeq(lines[i], LAMBDA t : t.kind = "date")
    IN  IF dates = <<>> THEN <<>>
        ELSE LET w == Window(lines, i, 0, dates[1], <<>>)
             IN  IF IsCandidate(w[1], w[2])
                 THEN <<Transaction(normalizeDate(StrOf(<<dates[1]>>, FALSE), tzAhead, lenient),
                                    StrOf(w[1], FALSE), w[2], "alternative", found + 1)>>
                 ELSE <<>>

\* new Date(t.date).getTime(), as the day it falls on; None when it is NaN
TimeOf(t, lenient) ==
    LET date == NewDateOfString(t.date, lenient)
    IN  IF date[1] THEN Some(date[2]) ELSE None

\* day a is before day b
DayBefore(a, b) ==
    \/ a[1] < b[1]
    \/ a[1] = b[1] /\ a[2] < b[2]
    \/ a[1] = b[1] /\ a[2] = b[2] /\ a[3] < b[3]

\* the comparator of lines 192-194 returns a number below 0 for (x, y)
SortsBefore(x, y, lenient) ==
    /\ TimeOf(x, lenient) # None
    /\ TimeOf(y, lenient) # None
    /\ DayBefore(TimeOf(x, lenient)[1], TimeOf(y, lenient)[1])

RECURSIVE InsertByDate(_, _, _)
InsertByDate(sorted, x, lenient) ==
    IF sorted = <<>> THEN <<x>>
    ELSE IF SortsBefore(x, Head(sorted), lenient) THEN <<x>> \o sorted
    ELSE <<Head(sorted)>> \o InsertByDate(Tail(sorted), x, lenient)

RECURSIVE SortByDate(_, _)
\* the stable sort of the list by the comparator
SortByDate(list, lenient) ==
    IF list = <<>> THEN <<>>
    ELSE InsertByDate(SortByDate(SubSeq(list, 1, Len(list) - 1), lenient),
                      list[Len(list)], lenient)

\* transactions.sort(comparator).  Array.prototype.sort is stable; where the
\* comparator returns NaN for some pair it is no consistent comparator and the
\* order of the result is implementation-defined (ECMA-262, sec. 23.1.3.30):
\* any arrangement of the elements is an outcome.
SortOutcomes(list, lenient) ==
    IF \A i \in DOMAIN list : TimeOf(list[i], lenient) # None
    THEN {SortByDate(list, lenient)}
    ELSE {[i \in DOMAIN list |-> list[p[i]]] : p \in Permutations(DOMAIN list)}

NeedsAlternativeAlways(transactions) == TRUE

\* transactions.length === 0
NeedsAlternative(transactions) == Len(transactions) = 0

\* lines of a document
MaxLines == 3

RECURSIVE Repeat(_, _)
Repeat(row, n) == IF n = 0 THEN <<>> ELSE row \o Repeat(row, n - 1)

\* a page of rows "date description amount balance": the text of a page is
\* one line (part_002, lines 72-78)
Page(date, description, cents) ==
    Repeat(<<date, WordTok(description), AmtTok(cents), AmtTok(10000)>>, MatchesForAmount)

StarbucksLine ==
    <<DateTok(3, 15, 2024), WordTok("STARBUCKS"), WordTok("COFFEE"), AmtTok(-575)>>

Lines ==
    {<<>>,
     StarbucksLine,
     <<DateTok(3, 20, 2024), WordTok("DEPOSIT"), AmtTok(120000)>>,
     <<DateTok(1, 1, 2024), WordTok("RENT")>>,
     <<WordTok("LANDLORD"), AmtTok(-90000)>>,
     Page(DateTok(3, 20, 2024), "DEPOSIT", 120000),
     Page(DateTok(3, 10, 2024), "REFUND", 2500),
     Page(DateTok(3, 15, 2024), "COFFEE", -575)}

\* text.split("\n") has at least one element
RecognizerTexts == SeqsUpTo(Lines, MaxLines) \ {<<>>}

InitRecognizer ==
    /\ templates = <<>>
    /\ idsGenerated = 0
    /\ observed = <<>>
    /\ matchResult = None
    /\ procs = [p \in Procs |-> IdleProc]
    /\ extraction = None
    /\ exporting = None
    /\ processing = None
    /\ \E text \in RecognizerTexts, tzAhead \in BOOLEAN, lenient \in BOOLEAN :
          recognition = [pc |-> "primary", lines |-> text, tzAhead |-> tzAhead,
                         lenient |-> lenient, i |-> 1, transactions |-> <<>>,
                         alternative |-> <<>>, alternativeRan |-> FALSE,
                         result |-> <<>>]

RecognizerUnchanged ==
    UNCHANGED <<templates, idsGenerated, observed, matchResult, procs,
                extraction, exporting, processing>>

\* one turn of the loop of lines 156-185
PrimaryLine ==
    /\ recognition.pc = "primary"
    /\ recognition.i <= Len(recognition.lines)
    /\ recognition' =
          [recognition EXCEPT
              !.transactions = @ \o PrimaryOfLine(recognition.lines[recognition.i], Len(@),
                                                  recognition.tzAhead, recognition.lenient),
              !.i = @ + 1]
    /\ RecognizerUnchanged

\* lines 187-194: the loop is over
PrimaryEnd ==
    /\ recognition.pc = "primary"
    /\ recognition.i > Len(recognition.lines)
    /\ IF NeedsAlternative(recognition.transactions)
       THEN recognition' = [recognition EXCEPT !.pc = "alternative", !.i = 1,
                                               !.alternativeRan = TRUE]
       ELSE \E sorted \in SortOutcomes(recognition.transactions, recognition.lenient) :
               recognition' = [recognition EXCEPT !.pc = "done", !.result = sorted]
    /\ RecognizerUnchanged

\* one turn of the loop of lines 201-252
AlternativeLine ==
    /\ recognition.pc = "alternative"
    /\ recognition.i <= Len(recognition.lines)
    /\ recognition' =
          [recognition EXCEPT
              !.alternative = @ \o AlternativeOfLine(recognition.lines, recognition.i, Len(@),
                                                     recognition.tzAhead, recognition.lenient),
              !.i = @ + 1]
    /\ RecognizerUnchanged

\* lines 254-256
AlternativeEnd ==
    /\ recognition.pc = "alternative"
    /\ recognition.i > Len(recognition.lines)
    /\ \E sorted \in SortOutcomes(recognition.alternative, recognition.lenient) :
          recognition' = [recognition EXCEPT !.pc = "done", !.result = sorted]
    /\ RecognizerUnchanged

NextRecognizer ==
    \/ PrimaryLine
    \/ PrimaryEnd
    \/ AlternativeLine
    \/ AlternativeEnd

SpecRecognizer == InitRecognizer /\ [][NextRecognizer]_vars

-----------------------------------------------------------------------------
(* The recognizer of src/src/utils/pdfParser.ts: the same two strategies,    *)
(* with a call of categorizeTransactionAI awaited for every transaction      *)
(* before it is pushed (lines 176-200 and 247-271)                           *)

\* confidence: 0.5 of the initial categoryInfo, in hundredths
DefaultConfidence == 50

\* a word of the description holds one of the keywords of the branch
HasKeyword(description, words) ==
    \E k \in DOMAIN description.toks : description.toks[k].word \in words

\* categorizeTransaction (lines 309-365): the first branch with a keyword the
\* lower-cased description includes.  Of the words of the model DEPOSIT
\* includes "deposit" and COFFEE includes "fee"; the keywords of the other
\* branches occur in none.
categorizeTransaction(description) ==
    IF HasKeyword(description, {"DEPOSIT"}) THEN "Income"
    ELSE IF HasKeyword(description, {"COFFEE"}) THEN "Fees & Charges"
    ELSE "Other"

\* what the call of categorizeTransactionAI comes to: a rejection, or the
\* object JSON.parse made of the answer, with or without a confidence
CategorizationFailed == [ok |-> FALSE, category |-> "", confidence |-> None]

CategorizationOutcomes ==
    {CategorizationFailed}
    \cup {[ok |-> TRUE, category |-> c, confidence |-> k] :
             c \in {"Food", "Housing"}, k \in {None, Some(90)}}

\* lines 177-189: categoryInfo when the transaction is pushed.  fromAI is not
\* a field of the program's object: it records which path gave the category.
CategoryInfo(description, outcome) ==
    IF outcome.ok
    THEN [category |-> outcome.category, confidence |-> outcome.confidence, fromAI |-> TRUE]
    ELSE [category |-> categorizeTransaction(description),
          confidence |-> Some(DefaultConfidence), fromAI |-> FALSE]

\* category and confidence of the transactions pushed, in the order pushed
Categorized(emitted, outcome) ==
    IF emitted = <<>> THEN <<>>
    ELSE <<CategoryInfo(emitted[1].description, outcome)>>

InitCategorizing ==
    /\ templates = <<>>
    /\ idsGenerated = 0
    /\ observed = <<>>
    /\ matchResult = None
    /\ procs = [p \in Procs |-> IdleProc]
    /\ extraction = None
    /\ exporting = None
    /\ processing = None
    /\ \E text \in RecognizerTexts, tzAhead \in BOOLEAN, lenient \in BOOLEAN :
          recognition = [pc |-> "primary", lines |-> text, tzAhead |-> tzAhead,
                         lenient |-> lenient, i |-> 1, transactions |-> <<>>,
                         alternative |-> <<>>, alternativeRan |-> FALSE,
                         result |-> <<>>, categoryInfo |-> <<>>]

\* one turn of the loop of lines 161-202; the outcome is that of the call
\* awaited at line 182, made only when the line gives a transaction
PrimaryLineAI(outcome) ==
    /\ recognition.pc = "primary"
    /\ recognition.i <= Len(recognition.lines)
    /\ LET emitted == PrimaryOfLine(recognition.lines[recognition.i],
                                    Len(recognition.transactions),
                                    recognition.tzAhead, recognition.lenient)
       IN  /\ emitted = <<>> => outcome = CategorizationFailed
           /\ recognition' = [recognition EXCEPT
                                 !.transactions = @ \o emitted,
                                 !.categoryInfo = @ \o Categorized(emitted, outcome),
                                 !.i = @ + 1]
    /\ RecognizerUnchanged

\* one turn of the loop of lines 217-273, with the call awaited at line 253
AlternativeLineAI(outcome) ==
    /\ recognition.pc = "alternative"
    /\ recognition.i <= Len(recognition.lines)
    /\ LET emitted == AlternativeOfLine(recognition.lines, recognition.i,
                                        Len(recognition.alternative),
                                        recognition.tzAhead, recognition.lenient)
       IN  /\ emitted = <<>> => outcome = CategorizationFailed
           /\ recognition' = [recognition EXCEPT
                                 !.alternative = @ \o emitted,
                                 !.categoryInfo = @ \o Categorized(emitted, outcome),
                                 !.i = @ + 1]
    /\ RecognizerUnchanged

NextCategorizing ==
    \/ \E outcome \in CategorizationOutcomes : PrimaryLineAI(outcome)
    \/ PrimaryEnd
    \/ \E outcome \in CategorizationOutcomes : AlternativeLineAI(outcome)
    \/ AlternativeEnd

SpecCategorizing == InitCategorizing /\ [][NextCategorizing]_vars

-----------------------------------------------------------------------------
(* normalizeDate on its own: the function applied to a string, and then to   *)
(* the string it returned                                                     *)

\* YYYY-MM-DD strings, some of a day the month does not have
IsoInputs ==
    {IsoDate(y, m, d) : y \in {2023, 2024}, m \in {1, 2, 3, 12},
                        d \in {1, 15, 29, 30, 31}}

\* M/D/Y dates, alone, cut short ("03/15/"), or followed by the rest of a row
DatedInputs ==
    LET dates == {DateTok(m, d, y) : m \in {1, 3}, d \in {1, 15}, y \in {24, 99, 2024}}
    IN  {StrOf(<<t>>, cut) : t \in dates, cut \in BOOLEAN}
        \cup {StrOf(<<t, WordTok("RENT")>>, FALSE) : t \in dates}
        \cup {StrOf(<<t, WordTok("RENT"), AmtTok(-90000)>>, FALSE) : t \in dates}

\* strings that hold no date
UndatedInputs ==
    {StrOf(<<>>, FALSE), StrOf(<<WordTok("RENT")>>, FALSE),
     StrOf(<<AmtTok(-90000)>>, FALSE), StrOf(<<WordTok("LANDLORD"), AmtTok(120000)>>, FALSE)}

NormalizeInputs == IsoInputs \cup DatedInputs \cup UndatedInputs

InitNormalize ==
    /\ templates = <<>>
    /\ idsGenerated = 0
    /\ observed = <<>>
    /\ matchResult = None
    /\ procs = [p \in Procs |-> IdleProc]
    /\ extraction = None
    /\ exporting = None
    /\ processing = None
    /\ \E s \in NormalizeInputs, tzAhead \in BOOLEAN, lenient \in BOOLEAN :
          recognition = [pc |-> "input", input |-> s, tzAhead |-> tzAhead,
                         lenient |-> lenient, once |-> s, twice |-> s]

\* normalizeDate(s)
NormalizeOnce ==
    /\ recognition.pc = "input"
    /\ recognition' = [recognition EXCEPT
                          !.once = normalizeDate(recognition.input, recognition.tzAhead,
                                                 recognition.lenient),
                          !.pc = "once"]
    /\ RecognizerUnchanged

\* normalizeDate of the string the first call returned
NormalizeAgain ==
    /\ recognition.pc = "once"
    /\ recognition' = [recognition EXCEPT
                          !.twice = normalizeDate(recognition.once, recognition.tzAhead,
                                                  recognition.lenient),
                          !.pc = "twice"]
    /\ RecognizerUnchanged

NextNormalize == NormalizeOnce \/ NormalizeAgain

SpecNormalize == InitNormalize /\ [][NextNormalize]_vars

-----------------------------------------------------------------------------
(* exportToExcel with AI categorization (src/unnamed/part_001, lines 63-109) *)

\* transactions of an exported statement
MaxExportTxns == 2

\* the transactions handed to the export, with the category they come with
ExportTransactions == [description : {"COFFEE", "RENT"}, category : {"Other"}]

\* the categories the AI may answer
AiCategories == {"Food", "Housing"}

ExportInputs ==
    [transactions : SeqsUpTo(ExportTransactions, MaxExportTxns),
     useAICategorization : BOOLEAN, includeSummary : BOOLEAN, groupByMonth : BOOLEAN]

\* the call of categorizeAndRefineTransactionAI made for one transaction:
\* pending, ok (with its category) or failed, and its rank in the order of
\* completion
PendingCall == [status |-> "pending", category |-> "", rank |-> 0]

CategorizedOrUncategorized(t, call) ==
    IF call.status = "ok" THEN [t EXCEPT !.category = call.category]
    ELSE [t EXCEPT !.category = "Uncategorized"]

\* lines 74-84: what the callback of map resolves to
CategorizedTransaction(t, call) ==
    IF call.status = "ok" THEN [t EXCEPT !.category = call.category] ELSE t

JoinReadyAny(calls) == \E i \in DOMAIN calls : calls[i].status # "pending"

\* Promise.all resolves when every promise of the array has resolved
JoinReady(calls) == \A i \in DOMAIN calls : calls[i].status # "pending"

\* lines 89-108 from the list of transactions on, up to the await of
\* createSummarySheet when a summary is asked for
AfterCategorization(e, transactions) ==
    [e EXCEPT !.transactions = transactions,
              !.finalized = TRUE,
              !.sheets = IF e.options.includeSummary THEN <<"Transactions">>
                         ELSE IF e.options.groupByMonth
                         THEN <<"Transactions", "Monthly Breakdown">>
                         ELSE <<"Transactions">>,
              !.written = ~e.options.includeSummary,
              !.pc = IF e.options.includeSummary THEN "summary" ELSE "done"]

InitExport ==
    /\ templates = <<>>
    /\ idsGenerated = 0
    /\ observed = <<>>
    /\ matchResult = None
    /\ procs = [p \in Procs |-> IdleProc]
    /\ extraction = None
    /\ recognition = None
    /\ processing = None
    /\ \E input \in ExportInputs :
          exporting = [pc |-> "start", input |-> input.transactions,
                       options |-> [useAICategorization |-> input.useAICategorization,
                                    includeSummary |-> input.includeSummary,
                                    groupByMonth |-> input.groupByMonth],
                       calls |-> <<>>, completed |-> 0, transactions |-> <<>>,
                       finalized |-> FALSE, sheets |-> <<>>, written |-> FALSE]

ExportUnchanged ==
    UNCHANGED <<templates, idsGenerated, observed, matchResult, procs,
                extraction, recognition, processing>>

\* lines 67-87 up to the first await: with useAICategorization the callback of
\* map runs for every transaction, each up to its await of the AI call, and
\* Promise.all is awaited; without it lines 89-108 follow at once
ExportBegin ==
    /\ exporting.pc = "start"
    /\ exporting' =
          IF exporting.options.useAICategorization
          THEN [exporting EXCEPT !.calls = [i \in DOMAIN exporting.input |-> PendingCall],
                                 !.pc = "join"]
          ELSE AfterCategorization(exporting, exporting.input)
    /\ ExportUnchanged

\* the AI answers the call made for transaction i: line 77
CallSucceeds(i, category) ==
    /\ exporting.pc = "join"
    /\ i \in DOMAIN exporting.calls
    /\ exporting.calls[i].status = "pending"
    /\ exporting' = [exporting EXCEPT
                        !.calls[i] = [status |-> "ok", category |-> category,
                                      rank |-> exporting.completed + 1],
                        !.completed = @ + 1]
    /\ ExportUnchanged

\* the call made for transaction i rejects (callAI, or JSON.parse of the
\* answer): the catch of lines 78-84
CallFails(i) ==
    /\ exporting.pc = "join"
    /\ i \in DOMAIN exporting.calls
    /\ exporting.calls[i].status = "pending"
    /\ exporting' = [exporting EXCEPT
                        !.calls[i] = [status |-> "failed", category |-> "",
                                      rank |-> exporting.completed + 1],
                        !.completed = @ + 1]
    /\ ExportUnchanged

\* Promise.all resolves with the results in the order of the array; lines
\* 89-108 follow
Join ==
    /\ exporting.pc = "join"
    /\ JoinReady(exporting.calls)
    /\ exporting' =
          AfterCategorization(exporting,
              [i \in DOMAIN exporting.input |->
                  CategorizedTransaction(exporting.input[i], exporting.calls[i])])
    /\ ExportUnchanged

\* createSummarySheet resolves: lines 97-108
SummaryDone ==
    /\ exporting.pc = "summary"
    /\ exporting' = [exporting EXCEPT
                        !.sheets = IF exporting.options.groupByMonth
                                   THEN @ \o <<"Summary", "Monthly Breakdown">>
                                   ELSE @ \o <<"Summary">>,
                        !.written = TRUE,
                        !.pc = "done"]
    /\ ExportUnchanged

NextExport ==
    \/ ExportBegin
    \/ \E i \in 1..MaxExportTxns, category \in AiCategories : CallSucceeds(i, category)
    \/ \E i \in 1..MaxExportTxns : CallFails(i)
    \/ Join
    \/ SummaryDone

SpecExport == InitExport /\ [][NextExport]_vars

-----------------------------------------------------------------------------
(* Claims on the metrics of a template (SpecMetrics) *)

UpdateCount(id) == observed[id][1]
UpdateSum(id) == observed[id][2]

\* C1: a template's isVerified goes from false to true only in an
\* updateTemplateMetrics step on it after which usageCount >= 10 and
\* avgAccuracy >= 0.9, a created template is not verified, and isVerified
\* never goes back from true to false.
C1_VerificationOneWay ==
    [][\A i \in DOMAIN templates' :
          LET new == templates'[i]
              id == new.id
          IN  IF MapHas(templates, id)
              THEN LET old == MapGet(templates, id)
                   IN  /\ old.isVerified => new.isVerified
                       /\ (~old.isVerified /\ new.isVerified) =>
                             /\ observed'[id][1] = observed[id][1] + 1
                             /\ new.usageCount >= 10
                             /\ RatGeq(new.avgAccuracy, Rat(9, 10))
              ELSE ~new.isVerified]_vars

\* a verified template whose average has since fallen below 0.9
C1_Witness ==
    \E i \in DOMAIN templates :
        /\ templates[i].isVerified
        /\ RatLt(templates[i].avgAccuracy, Rat(9, 10))

\* C2: after n updateTemplateMetrics calls with accuracies a1..an on a
\* template made by createTemplateFromAI, usageCount = n + 1 and
\* avgAccuracy = (0.85 + a1 + ... + an) / (n + 1), in exact arithmetic.
C2_RunningMean ==
    \A i \in DOMAIN templates :
        LET t == templates[i]
            n == UpdateCount(t.id)
        IN  /\ t.usageCount = n + 1
            /\ t.avgAccuracy = Rat(85 + UpdateSum(t.id), 100 * (n + 1))

\* three observations, not all equal
C2_Witness ==
    \E i \in DOMAIN templates :
        /\ UpdateCount(templates[i].id) = 3
        /\ UpdateSum(templates[i].id) = 85 + 95 + 95
        /\ templates[i].avgAccuracy = Rat(360, 400)

-----------------------------------------------------------------------------
(* Claims on matching (SpecMatch) *)

Found == matchResult[1]
CatalogueTemplate(id) == MapGet(templates, id)
Indicator(b) == IF b THEN 1 ELSE 0
SignalCount(text, t) ==
    Indicator(BankNameSignal(text, t)) + Indicator(AccountSignal(text, t))
    + Indicator(DateSignal(text, t)) + Indicator(HasCredits(text) \/ HasDebits(text))

\* C4: every score calculateTemplateMatch computes lies in [0, 1]; it is 0
\* when none of the four signals is present and 1 when all four are, with
\* both keyword kinds; the keywords add 25 points when both kinds occur, 15
\* when exactly one does, and nothing otherwise.
C4_ScoreBounds ==
    matchResult # None =>
        \A i \in DOMAIN Found.confidences :
            LET c == Found.confidences[i].confidence
                t == CatalogueTemplate(Found.confidences[i].template)
                text == Found.text
                bare == calculateTemplateMatch([text EXCEPT !.words = {}], t)
                both == HasCredits(text) /\ HasDebits(text)
                one == HasCredits(text) # HasDebits(text)
            IN  /\ RatGeq(c, RatInt(0)) /\ RatGeq(RatInt(1), c)
                /\ SignalCount(text, t) = 0 => c = RatInt(0)
                /\ (SignalCount(text, t) = 4 /\ both) => c = RatInt(1)
                /\ both => c = RatAdd(bare, Rat(25, 100))
                /\ one => c = RatAdd(bare, Rat(15, 100))
                /\ (~both /\ ~one) => c = bare

\* a template scored with three signals and one keyword kind only
C4_Witness ==
    /\ matchResult # None
    /\ \E i \in DOMAIN Found.confidences :
        LET t == CatalogueTemplate(Found.confidences[i].template)
        IN  /\ BankNameSignal(Found.text, t)
            /\ AccountSignal(Found.text, t)
            /\ DateSignal(Found.text, t)
            /\ HasCredits(Found.text) /\ ~HasDebits(Found.text)
            /\ Found.confidences[i].confidence = Rat(90, 100)

\* C5: findBestTemplate discards exactly the templates scoring below 0.3: a
\* template scoring 0.3 or more is a candidate, and the result is none only
\* when every catalogued template scores below 0.3.
C5_ThresholdInclusive ==
    matchResult # None =>
        /\ \A i \in DOMAIN Found.confidences :
              LET e == Found.confidences[i]
              IN  (\E j \in DOMAIN Found.candidates : Found.candidates[j].template = e.template)
                  <=> RatGeq(e.confidence, Rat(3, 10))
        /\ Found.result = None =>
              \A i \in DOMAIN Found.confidences :
                  RatLt(Found.confidences[i].confidence, Rat(3, 10))

\* C6: among the catalogued templates that share the highest score, the
\* result of findBestTemplate is the one registered first (ids are handed out
\* in registration order), whatever creations and updates came before.
C6_FirstRegisteredWins ==
    (matchResult # None /\ Found.result # None) =>
        LET best == Found.result[1]
        IN  \A i \in DOMAIN Found.confidences :
                LET e == Found.confidences[i]
                IN  /\ RatGeq(best.confidence, e.confidence)
                    /\ e.confidence = best.confidence => best.template <= e.template

\* two templates tie at the top, the first registered was updated since,
\* and it is the result
C6_Witness ==
    /\ matchResult # None
    /\ Found.result # None
    /\ \E i, j \in DOMAIN Found.confidences :
        /\ i < j
        /\ Found.confidences[i].confidence = Found.confidences[j].confidence
        /\ Found.confidences[i].confidence = Found.result[1].confidence
        /\ Found.result[1].template = Found.confidences[i].template
        /\ CatalogueTemplate(Found.confidences[i].template).usageCount > 1

-----------------------------------------------------------------------------
(* Claims on parseWithTemplateSelection (SpecPipeline, SpecConcurrent) *)

\* the call has resolved its template (lines 378-383 have run)
PastSelection(r) ==
    \/ r.pc \in {"match", "parse", "persist", "fallback", "ai", "save", "returned"}
    \/ r.pc = "threw" /\ r.aiRan
\* findBestTemplate has returned to the call
PastMatch(r) == PastSelection(r) /\ r.matchCalled /\ r.pc # "match"
\* an id was supplied and was in the catalogue when the call resolved it
SelectedFound(r) ==
    r.selectedTemplateId # NoId /\ r.selectedTemplateId \in r.keysAtResolve
BestTemplateId(m, text) ==
    LET best == BestCandidate(AllCandidates(m, text))
    IN  IF best = None THEN NoId ELSE best[1].template

\* C3 (as claimed): a template made by createTemplateFromAI becomes verified
\* after enough successful template-guided parses; within the model, once
\* its usageCount has reached MaxUsage (more than the 10 uses asked for).
C3_PromotedAfterUses ==
    \A i \in DOMAIN templates :
        templates[i].usageCount >= MaxUsage => templates[i].isVerified

\* what the pipeline does instead: every update it makes passes 0.9, so the
\* average stays below 0.9 and no template is ever verified
PipelineNeverVerifies ==
    \A i \in DOMAIN templates :
        /\ ~templates[i].isVerified
        /\ RatLt(templates[i].avgAccuracy, Rat(9, 10))

\* C7: the template is resolved in strict order: the selected template when
\* an id is given and found, findBestTemplate not being called; otherwise
\* what findBestTemplate returns; extraction without a template only when
\* both gave none (and AI extraction otherwise only as the fallback of C8).
C7_ResolutionOrder ==
    \A p \in Procs :
        LET r == procs[p]
        IN  PastSelection(r) =>
              /\ SelectedFound(r) =>
                    /\ ~r.matchCalled
                    /\ r.templateUsed = r.selectedTemplateId
              /\ ~SelectedFound(r) => r.matchCalled
              /\ PastMatch(r) =>
                    /\ r.matched # NoId => r.templateUsed = r.matched
                    /\ r.pc \in {"parse", "ai"} =>
                          r.matched = BestTemplateId(templates, r.text)
              /\ r.noTemplate <=> (PastMatch(r) /\ r.matched = NoId)
              /\ r.pc \in {"ai", "save"} => r.noTemplate
              /\ r.aiRan => (r.noTemplate \/ r.templateThrew)

\* a call that used the selected template although findBestTemplate would
\* have returned another one
C7_Witness ==
    \E p \in Procs :
        /\ procs[p].pc = "parse"
        /\ SelectedFound(procs[p])
        /\ procs[p].templateUsed = procs[p].selectedTemplateId
        /\ BestTemplateId(templates, procs[p].text)
              \notin {NoId, procs[p].selectedTemplateId}

\* C8: when the template-guided parse throws, the call goes on to the AI
\* extraction and returns its result; it rejects only when that extraction
\* fails too.
C8_FallbackOnTemplateFailure ==
    \A p \in Procs :
        LET r == procs[p]
        IN  r.templateThrew =>
              /\ r.pc \in {"fallback", "returned", "threw"}
              /\ r.pc = "returned" => (r.aiRan /\ ~r.aiFailed /\ r.data # None)
              /\ r.pc = "threw" => (r.aiRan /\ r.aiFailed)

\* a call that returned the fallback's data after its template parse threw
C8_Witness ==
    \E p \in Procs :
        /\ procs[p].templateThrew
        /\ procs[p].pc = "returned"
        /\ procs[p].aiRan
        /\ procs[p].data # None
        /\ procs[p].templateUsed # NoId

UpdatesDone(id) == observed[id][3]
UpdatesInFlight(id) ==
    Cardinality({p \in Procs : procs[p].pc = "persist" /\ procs[p].templateUsed = id})

\* C10: however the concurrent calls interleave, no update of the metrics is
\* lost: usageCount has grown by one for each updateTemplateMetrics call that
\* is over or under way, and avgAccuracy is the running mean of 0.85 and the
\* 0.9 of each of them.
C10_NoLostUpdate ==
    \A i \in DOMAIN templates :
        LET t == templates[i]
            k == UpdatesDone(t.id) + UpdatesInFlight(t.id)
        IN  /\ t.usageCount = 1 + k
            /\ t.avgAccuracy = Rat(85 + 90 * k, 100 * (k + 1))

\* two calls whose updates of one template overlapped are both over
C10_Witness ==
    \E p, q \in Procs :
        /\ p # q
        /\ procs[p].pc = "returned" /\ procs[q].pc = "returned"
        /\ procs[p].templateUsed = procs[q].templateUsed
        /\ procs[q].overlapped
        /\ ~procs[p].isNewTemplate /\ ~procs[q].isNewTemplate
        /\ ~procs[p].templateThrew /\ ~procs[q].templateThrew
        /\ UpdatesDone(procs[p].templateUsed) = 2
        /\ UpdatesInFlight(procs[p].templateUsed) = 0
        /\ MapGet(templates, procs[p].templateUsed).usageCount = 3

-----------------------------------------------------------------------------
(* Claims on failures of the persistence interface (SpecPersistence) *)

\* the metrics a call wrote before awaiting updateTemplateInDB are in the Map
MetricsKept(r) ==
    /\ MapHas(templates, r.templateUsed)
    /\ MapGet(templates, r.templateUsed).usageCount >= r.snapshot[1].usageCount

\* C11: a failure of the persistence interface is only logged: after
\* saveTemplate has thrown inside createTemplateFromAI the new template is in
\* the catalogue, after updateTemplateInDB has thrown inside
\* updateTemplateMetrics the incremented metrics are in the catalogue, and in
\* both cases no error reaches the caller of the operation.
C11_PersistenceFailureOnlyLogged ==
    \A p \in Procs :
        /\ procs[p].dbFailed = "save" =>
               /\ MapHas(templates, procs[p].pending[1].id)
               /\ ~procs[p].opRejected
        /\ procs[p].dbFailed = "update" =>
               /\ MetricsKept(procs[p])
               /\ ~procs[p].opRejected

-----------------------------------------------------------------------------
(* Claims on AI-assisted whole-document extraction (SpecExtraction) *)

\* neither the fenced block of the completion nor the whole completion is JSON
Unparseable(response) ==
    /\ response.fence = None \/ response.fence[1].kind # "json"
    /\ response.whole.kind # "json"

\* C12: when the completion cannot be parsed as JSON, neither its fenced json
\* block nor the whole response, extractBankStatementData raises an error and
\* returns no record, complete or partial, and parsePDFStatement ends in an
\* error too.
C12_UnparseableRaises ==
    (extraction.response # None /\ Unparseable(extraction.response[1]))
        => /\ extraction.extracted = "threw"
           /\ extraction.data = None
           /\ extraction.pc = "threw"

\* a completion whose fenced block is not JSON has been rejected
C12_Witness ==
    /\ extraction.response # None
    /\ extraction.response[1].fence = Some(NotJson)
    /\ extraction.extracted = "threw"
    /\ extraction.pc = "threw"

\* C13: every transaction of a record returned by AI-assisted extraction has
\* type debit or credit: a payload with another type is not returned as it is.
C13_TypesDebitOrCredit ==
    (extraction.pc = "returned" /\ extraction.data[1].transactions # None)
        => \A i \in DOMAIN extraction.data[1].transactions[1] :
              extraction.data[1].transactions[1][i].type \in {"debit", "credit"}

\* C14: every record returned has a transactions field that is a sequence,
\* possibly empty, never null or absent, whatever parseable payload the AI
\* returns.
C14_TransactionsIsSequence ==
    extraction.pc = "returned" => extraction.data[1].transactions # None

-----------------------------------------------------------------------------
(* Claims on the pattern recognizer (SpecRecognizer) *)

\* every transaction the two strategies have emitted so far
Emitted == recognition.transactions \o recognition.alternative \o recognition.result

\* C15: for every input text the list parseTransactions returns, through either
\* strategy, is non-decreasing by date, and transactions with equal dates keep
\* the relative order in which they were recognized.
C15_SortedByDateStable ==
    recognition.pc = "done" =>
        \A i, j \in DOMAIN recognition.result :
            i < j =>
                LET a == recognition.result[i]
                    b == recognition.result[j]
                    ta == TimeOf(a, recognition.lenient)
                    tb == TimeOf(b, recognition.lenient)
                IN  /\ (ta # None /\ tb # None) => ~DayBefore(tb[1], ta[1])
                    /\ a.date = b.date => a.recognized < b.recognized

\* C16: every transaction the recognizer emits, by either strategy, has an
\* amount >= 0 that is the absolute value of the parsed signed amount, and its
\* type is debit exactly when that signed amount is negative and credit
\* otherwise: the type is taken from the signed value.
C16_AmountAndType ==
    \A i \in DOMAIN Emitted :
        LET t == Emitted[i]
        IN  /\ t.amount >= 0
            /\ t.amount = (IF t.signed < 0 THEN -t.signed ELSE t.signed)
            /\ t.type = "debit" <=> t.signed < 0
            /\ t.type = "credit" <=> t.signed >= 0

\* a debit of 5.75 and a credit have been returned
C16_Witness ==
    /\ recognition.pc = "done"
    /\ \E i \in DOMAIN recognition.result :
          /\ recognition.result[i].type = "debit"
          /\ recognition.result[i].signed = -575
          /\ recognition.result[i].amount = 575
    /\ \E i \in DOMAIN recognition.result : recognition.result[i].type = "credit"

\* C17: the alternative strategy runs only if the primary strategy produced no
\* transaction for the whole document; when the primary strategy produced at
\* least one, the returned list holds primary-strategy transactions only.
C17_AlternativeOnlyIfPrimaryEmpty ==
    /\ recognition.alternativeRan =>
          /\ recognition.transactions = <<>>
          /\ recognition.pc # "primary"
    /\ recognition.alternative # <<>> => recognition.alternativeRan
    /\ (recognition.pc = "done" /\ recognition.transactions # <<>>) =>
          /\ ~recognition.alternativeRan
          /\ Len(recognition.result) = Len(recognition.transactions)
          /\ \A i \in DOMAIN recognition.result :
                recognition.result[i].strategy = "primary"

\* a document with a line the alternative strategy would recognize has been
\* returned from the primary strategy alone
C17_Witness ==
    /\ recognition.pc = "done"
    /\ recognition.transactions # <<>>
    /\ \E i \in DOMAIN recognition.lines :
          AlternativeOfLine(recognition.lines, i, 0, recognition.tzAhead,
                            recognition.lenient) # <<>>
    /\ \A i \in DOMAIN recognition.result : recognition.result[i].strategy = "primary"

\* a date, a description of words and one signed amount
IsSimpleLine(line) ==
    /\ Len(line) >= 3
    /\ line[1].kind = "date"
    /\ line[Len(line)].kind = "amt"
    /\ \A k \in 2..(Len(line) - 1) : line[k].kind = "word"

\* C18: for a line made of a date, a description and one signed amount (as
\* "03/15/2024 STARBUCKS COFFEE -5.75") the primary line-pattern strategy itself
\* yields exactly one transaction: the date in ISO form, the description text,
\* the magnitude of the amount, and type debit when the amount is negative.
C18_SimpleLinePrimary ==
    (/\ Len(recognition.lines) = 1
     /\ IsSimpleLine(recognition.lines[1])
     /\ (recognition.pc # "primary" \/ recognition.i > 1))
        => LET line == recognition.lines[1]
               cents == line[Len(line)].cents
           IN  /\ Len(recognition.transactions) = 1
               /\ recognition.transactions[1].date =
                     IsoDate(FullYear(line[1].y), line[1].m, line[1].d)
               /\ recognition.transactions[1].description =
                     StrOf(SubSeq(line, 2, Len(line) - 1), FALSE)
               /\ recognition.transactions[1].amount = (IF cents < 0 THEN -cents ELSE cents)
               /\ recognition.transactions[1].type = (IF cents < 0 THEN "debit" ELSE "credit")

-----------------------------------------------------------------------------
(* Claims on exportToExcel with AI categorization (SpecExport) *)

\* C19: a failing categorization call for one transaction leaves that
\* transaction with its original category and neither aborts the export nor
\* affects the others: the categorized list has the length and the order of
\* the input, and every transaction whose own call succeeded carries its own
\* AI result.
C19_FailureKeepsOriginal ==
    (exporting.options.useAICategorization /\ exporting.finalized) =>
        /\ Len(exporting.transactions) = Len(exporting.input)
        /\ \A i \in DOMAIN exporting.input :
              /\ exporting.transactions[i].description = exporting.input[i].description
              /\ exporting.calls[i].status = "failed" =>
                    exporting.transactions[i] = exporting.input[i]
              /\ exporting.calls[i].status = "ok" =>
                    exporting.transactions[i].category = exporting.calls[i].category
        /\ exporting.pc \in {"summary", "done"}

\* the file is written after the first call failed and the second, for another
\* description, succeeded
C19_Witness ==
    /\ exporting.pc = "done"
    /\ exporting.written
    /\ exporting.options.useAICategorization
    /\ Len(exporting.input) = 2
    /\ exporting.input[1].description # exporting.input[2].description
    /\ exporting.calls[1].status = "failed"
    /\ exporting.calls[2].status = "ok"
    /\ exporting.transactions[1].category = "Other"
    /\ exporting.transactions[2].category = "Housing"

\* C20: the categorization calls are all issued without waiting for one
\* another and are joined before the list is finalized: no sheet is built and
\* no file is written until every call has resolved to an AI result or to its
\* fallback, under every order of completion.
C20_JoinBeforeSheets ==
    exporting.options.useAICategorization =>
        /\ exporting.pc # "start" =>
              DOMAIN exporting.calls = DOMAIN exporting.input
        /\ (exporting.finalized \/ exporting.sheets # <<>> \/ exporting.written) =>
              \A i \in DOMAIN exporting.calls : exporting.calls[i].status # "pending"

\* the second call completed before the first, and the file is written
C20_Witness ==
    /\ exporting.options.useAICategorization
    /\ exporting.written
    /\ Len(exporting.calls) = 2
    /\ exporting.calls[2].rank = 1
    /\ exporting.calls[1].rank = 2
    /\ Len(exporting.sheets) >= 2

-----------------------------------------------------------------------------
(* Claims on the categorizing recognizer (SpecCategorizing) *)

\* C21: a transaction carries a confidence only when its category came from
\* the AI: when the categorization call fails during recognition and the
\* heuristic categorizer supplies the category, the emitted transaction has no
\* confidence.
C21_ConfidenceOnlyFromAI ==
    \A k \in DOMAIN recognition.categoryInfo :
        recognition.categoryInfo[k].confidence # None
            => recognition.categoryInfo[k].fromAI

-----------------------------------------------------------------------------
(* Claims on the errors of the AI extractor (SpecExtraction) *)

\* C23: for whole-document extraction, a failure of the AI call is surfaced
\* to the caller as an error distinct from the one raised for a response that
\* cannot be parsed: the error that says the response was invalid is raised
\* only when a response was received.
C23_CallFailureDistinct ==
    (extraction.pc = "threw" /\ extraction.error = InvalidJsonMessage)
        => extraction.response # None

\* C24: the transactions of every record the AI-assisted pipeline returns are
\* ordered by date ascending, whatever order the AI payload lists them in.
C24_ReturnedSortedByDate ==
    (extraction.pc = "returned" /\ extraction.data[1].transactions # None)
        => LET txns == extraction.data[1].transactions[1]
           IN  \A j, k \in DOMAIN txns :
                  j < k => ~DayBefore(txns[k].date, txns[j].date)

-----------------------------------------------------------------------------
(* Claims on normalizeDate (SpecNormalize) *)

\* the string is the YYYY-MM-DD of a day of the calendar
IsCalendarDay(s) == s.form = "iso" /\ s.d <= DaysInMonth(s.y, s.m)

\* neither new Date(s) nor the three parts of s give a date
CannotBeParsed(s, lenient) ==
    /\ ~NewDateOfString(s, lenient)[1]
    /\ s.form # "iso"
    /\ ~(SeparatorCount(s) = 2 /\ s.toks # <<>> /\ s.toks[1].kind = "date"
         /\ ~(s.cut /\ Len(s.toks) = 1))

\* C25 as stated: normalizeDate(normalizeDate(s)) = normalizeDate(s) for every
\* input string; an input already in YYYY-MM-DD form is returned unchanged,
\* and an input that cannot be parsed is returned unchanged.
C25_Original ==
    /\ recognition.pc = "twice" => recognition.twice = recognition.once
    /\ (recognition.pc = "once" /\ recognition.input.form = "iso")
          => recognition.once = recognition.input
    /\ (recognition.pc = "once" /\ CannotBeParsed(recognition.input, recognition.lenient))
          => recognition.once = recognition.input

\* C25, amended: normalizeDate(normalizeDate(s)) = normalizeDate(s) for every
\* input string; an input that is the YYYY-MM-DD of a day of the calendar is
\* returned unchanged, and an input that cannot be parsed is returned
\* unchanged.
C25_Idempotent ==
    /\ recognition.pc = "twice" => recognition.twice = recognition.once
    /\ (recognition.pc = "once" /\ IsCalendarDay(recognition.input))
          => recognition.once = recognition.input
    /\ (recognition.pc = "once" /\ CannotBeParsed(recognition.input, recognition.lenient))
          => recognition.once = recognition.input

\* a date written M/D/Y was normalized to a YYYY-MM-DD string, and normalized
\* again, where local time is ahead of UTC
C25_Witness ==
    /\ recognition.pc = "twice"
    /\ recognition.input.form = "text"
    /\ recognition.once.form = "iso"
    /\ recognition.tzAhead

-----------------------------------------------------------------------------
(* Claims on the feedback hook (SpecFeedback) *)

\* the AI call failed, or its completion is not JSON
FeedbackFailed ==
    \/ extraction.callFailed
    \/ extraction.response # None /\ extraction.response[1].whole.kind # "json"

\* C26: handleCategoryFeedback never throws to its caller: when the AI call
\* fails or its response cannot be parsed it returns an empty list; otherwise
\* it returns the list of suggested keywords, the value parsed from the
\* response.
C26_FeedbackNeverThrows ==
    extraction.pc = "settled"
        => /\ ~extraction.threw
           /\ FeedbackFailed => extraction.returned = Some(JsonArray(<<>>))
           /\ ~FeedbackFailed => extraction.returned = extraction.response[1].whole.value

\* the call has returned after the AI call failed
C26_Witness ==
    /\ extraction.pc = "settled"
    /\ extraction.callFailed
    /\ extraction.returned = Some(JsonArray(<<>>))

-----------------------------------------------------------------------------
(* Claims on the creation and the upkeep of templates (SpecMetrics,          *)
(* SpecPipeline)                                                             *)

\* C27: a createTemplateFromAI call that returns adds exactly one template to
\* the catalogue, under an id not used by any existing template, with
\* avgAccuracy = 0.85, usageCount = 1 and isVerified = false, and leaves every
\* template already in the catalogue unchanged.
C27_CreateAddsOne ==
    [][idsGenerated' # idsGenerated =>
          /\ Len(templates') = Len(templates) + 1
          /\ LET new == templates'[Len(templates')]
             IN  /\ ~MapHas(templates, new.id)
                 /\ new.avgAccuracy = Rat(85, 100)
                 /\ new.usageCount = 1
                 /\ ~new.isVerified
          /\ \A i \in DOMAIN templates : templates'[i] = templates[i]]_vars

\* a template was created when the catalogue held one that had been used
\* since its creation
C27_Witness ==
    /\ Len(templates) = 2
    /\ templates[1].usageCount > 1
    /\ templates[2].usageCount = 1
    /\ UpdateCount(templates[2].id) = 0

\* C28: a template's usageCount and avgAccuracy change only as the effect of
\* a template-guided parse with that template that succeeded: when the
\* template-guided parse throws, or when updateTemplateMetrics is called with
\* an id that is not in the catalogue, every template in the catalogue is
\* unchanged, no template is created, and the orchestrator's result has
\* isNewTemplate = false.
C28_MetricsOnlyOnSuccess ==
    [][/\ procs'[1].templateThrew =>
             /\ templates' = templates
             /\ idsGenerated' = idsGenerated
             /\ ~procs'[1].isNewTemplate
       /\ \A i \in DOMAIN templates :
             (\/ templates'[i].usageCount # templates[i].usageCount
              \/ templates'[i].avgAccuracy # templates[i].avgAccuracy)
                => /\ procs[1].pc = "parse"
                   /\ procs'[1].pc = "persist"
                   /\ procs[1].templateUsed = templates[i].id]_vars

\* a call has its result from the AI after the parse with a template threw,
\* and that template had been used with success before
C28_Witness ==
    /\ procs[1].pc = "returned"
    /\ procs[1].templateThrew
    /\ procs[1].data # None
    /\ ~procs[1].isNewTemplate
    /\ MapGet(templates, procs[1].templateUsed).usageCount = 2

-----------------------------------------------------------------------------
(* Claims on the alternative strategy (SpecRecognizer) *)

\* the lines of the text that hold a token of the kind
LinesWith(kind) ==
    {i \in DOMAIN recognition.lines :
        \E k \in DOMAIN recognition.lines[i] : recognition.lines[i][k].kind = kind}

\* C29 as stated: in the alternative strategy each amount-bearing line
\* contributes to at most one emitted transaction, so the number of emitted
\* transactions never exceeds the number of lines that contain an amount
\* token.
C29_Original ==
    Len(recognition.alternative) <= Cardinality(LinesWith("amt"))

\* C29, amended: in the alternative strategy each dated line contributes at
\* most one emitted transaction, and an amount-bearing line is attributed to
\* at most three dated lines, itself and the two lines before it: the number
\* of emitted transactions never exceeds the number of lines that contain a
\* date token, nor three times the number of lines that contain an amount
\* token.
C29_WindowShare ==
    /\ Len(recognition.alternative) <= Cardinality(LinesWith("date"))
    /\ Len(recognition.alternative) <= WindowLines * Cardinality(LinesWith("amt"))

\* two dated lines have taken the amount of the one line that holds an amount
C29_Witness ==
    /\ recognition.alternativeRan
    /\ Len(recognition.alternative) = 2
    /\ Cardinality(LinesWith("amt")) = 1
    /\ recognition.alternative[1].signed = recognition.alternative[2].signed

-----------------------------------------------------------------------------
(* Claims on the hook (SpecProcessor, SpecProcessorFair) *)

\* C22: every external invocation is bounded by a timeout: a run whose AI
\* completion call never responds still ends, so whenever processFiles is in
\* the processing state it eventually leaves it.
C22_ProcessingEnds ==
    processing.isProcessing ~> ~processing.isProcessing

\* the step of the id, in processingSteps
StepOf(id) ==
    LET k == CHOOSE k \in DOMAIN processing.processingSteps :
                 processing.processingSteps[k].id = id
    IN  processing.processingSteps[k]

\* C30: when parsing fails during processFiles, the step that was in status
\* 'processing' at the moment of the failure (the step 'parse') is marked
\* 'error' with the error message; error is set, the file being processed has
\* status 'error', isComplete stays false and isProcessing is false again.
C30_FailureMarksStep ==
    (processing.pc = "idle" /\ processing.error # "")
        => /\ StepOf("parse").status = "error"
           /\ StepOf("parse").description = processing.error
           /\ processing.uploadedFiles[1].status = "error"
           /\ ~processing.isComplete
           /\ ~processing.isProcessing

=============================================================================
